---- MODULE Spec2Model ----
(***************************************************************************)
(* Maven-Jar-Analyzer: the analyzer (src/v1/maven_jar_analyzer.py), the    *)
(* local MCP server (src/v1/maven_jar_mcp_server.py), the remote HTTP      *)
(* server (src/v2/maven_jar_remote_server.py) and the proxy in front of it *)
(* (src/v2/maven_jar_mcp_proxy.py), as one state machine that serves a     *)
(* tool call step by step.                                                 *)
(*                                                                         *)
(* Text is modelled as a sequence of one-character strings wherever the    *)
(* code looks inside it (paths, class names); messages and process output  *)
(* are sequences of opaque tokens, so that "contains" is decidable.        *)
(***************************************************************************)
EXTENDS Integers, Sequences, FiniteSets, TLC

VARIABLES
    pc,                 \* position of the handler serving the current call
    req,                \* the tool call being served (server, tool, arguments)
    fs,                 \* the file system: work directories, manifest, archives
    work_dir,           \* the handler's work_dir local
    temp_dir_created,   \* remote analyze_dependency's temp_dir_created local
    mvn,                \* outcome of the resolver subprocess, NoRun before it ran
    jar_files,          \* the handler's jar_files local
    found_classes,      \* the handler's found_classes local (an ordered dict)
    analyze_data,       \* the analyze result handed to find-and-decompile
    decompiled_classes, \* find-and-decompile's decompiled_classes (ordered dict)
    next_class,         \* find-and-decompile's position in found_classes.items()
    response,           \* the envelope returned to the caller, NoResponse before
    calls,              \* history: the analyzer methods the handler has called
    decompile_log,      \* history: each decompile_class call, with javap's outcome
    fs0,                \* history: the file system as the call found it
    proxy,              \* the forwarding tier's call: tool, arguments, POSTs, result
    returns,            \* history: the find_class_in_jars calls and what they returned
    served              \* history: the requests a server has finished serving

vars == <<pc, req, fs, work_dir, temp_dir_created, mvn, jar_files, found_classes,
          analyze_data, decompiled_classes, next_class, response, calls,
          decompile_log, fs0, proxy, returns, served>>

(***************************************************************************)
(* Bounds of the model.                                                    *)
(***************************************************************************)
MaxTargets == 2
MaxDeps == 2
MaxFiles == 2
MaxJars == 2
MaxCalls == 2
MaxRequests == 2
MaxCleanups == 2
MaxBytes == 9

None == "None"

(***************************************************************************)
(* Python str operations, on sequences of characters.                      *)
(***************************************************************************)
EndsWith(s, suffix) ==
    /\ Len(s) >= Len(suffix)
    /\ SubSeq(s, Len(s) - Len(suffix) + 1, Len(s)) = suffix

StartsWithAt(s, i, sub) ==
    /\ i + Len(sub) - 1 <= Len(s)
    /\ SubSeq(s, i, i + Len(sub) - 1) = sub

\* `sub in s`
Contains(s, sub) ==
    \E i \in 1..(Len(s) + 1) : StartsWithAt(s, i, sub)

\* str.lower() on the characters the model uses
LowerChar(c) ==
    CASE c = "A" -> "a"
      [] c = "B" -> "b"
      [] c = "F" -> "f"
      [] c = "Z" -> "z"
      [] OTHER -> c

Lower(s) == [i \in 1..Len(s) |-> LowerChar(s[i])]

\* str.replace(old, new), leftmost non-overlapping occurrences, old non-empty
RECURSIVE ReplaceFrom(_, _, _, _)
ReplaceFrom(s, i, old, new) ==
    IF i > Len(s) THEN <<>>
    ELSE IF StartsWithAt(s, i, old)
         THEN new \o ReplaceFrom(s, i + Len(old), old, new)
         ELSE <<s[i]>> \o ReplaceFrom(s, i + 1, old, new)

Replace(s, old, new) == ReplaceFrom(s, 1, old, new)

\* s.split(sep)[-1], os.path.basename: what follows the last sep, all of s when
\* there is none
RECURSIVE LastSegmentFrom(_, _, _)
LastSegmentFrom(s, sep, i) ==
    IF i = 0 THEN s
    ELSE IF s[i] = sep THEN SubSeq(s, i + 1, Len(s))
         ELSE LastSegmentFrom(s, sep, i - 1)

LastSegment(s, sep) == LastSegmentFrom(s, sep, Len(s))

RECURSIVE SeqFilterIdx(_, _, _)
SeqFilterIdx(s, Keep(_), i) ==
    IF i > Len(s) THEN <<>>
    ELSE (IF Keep(s[i]) THEN <<s[i]>> ELSE <<>>) \o SeqFilterIdx(s, Keep, i + 1)

Range(s) == {s[i] : i \in 1..Len(s)}

\* every ordering of a finite set, as sequences
Perms(S) ==
    {p \in [1..Cardinality(S) -> S] : \A x \in S : \E i \in DOMAIN p : p[i] = x}

\* sequences over S of length 0..n
SeqsUpTo(S, n) == UNION {[1..k -> S] : k \in 0..n}

(***************************************************************************)
(* Python dicts keep insertion order: a dict is a sequence of [k, v].      *)
(***************************************************************************)
DictKeys(d) == [i \in 1..Len(d) |-> d[i].k]

DictHas(d, key) == \E i \in 1..Len(d) : d[i].k = key

DictGet(d, key) == d[CHOOSE i \in 1..Len(d) : d[i].k = key].v

DictSet(d, key, val) ==
    IF DictHas(d, key)
    THEN [i \in 1..Len(d) |-> IF d[i].k = key THEN [k |-> key, v |-> val] ELSE d[i]]
    ELSE Append(d, [k |-> key, v |-> val])

(***************************************************************************)
(* The data the model draws its inputs from.                               *)
(***************************************************************************)
DotClass == <<".", "c", "l", "a", "s", "s">>
DotJar == <<".", "j", "a", "r">>

Foo == <<"F", "o", "o">>
foo == <<"f", "o", "o">>
Bar == <<"B", "a", "r">>
Baz == <<"B", "a", "z">>

\* archive-internal entry paths
aFoo == <<"a", "/">> \o Foo \o DotClass
aBar == <<"a", "/">> \o Bar \o DotClass
bFoo == <<"b", "/">> \o Foo \o DotClass
bfoo == <<"b", "/">> \o foo \o DotClass
xTxt == <<"x", ".", "t", "x", "t">>

\* file names the resolver can leave in the output directory
JarA == <<"A">> \o DotJar
JarB == <<"B">> \o DotJar
JarC == <<"C">> \o DotJar
Notes == <<"n", ".", "t", "x", "t">>
Files == {JarA, JarB, JarC, Notes}

\* an archive with entries of every kind: a class under a directory whose name
\* ends in ".class", a directory entry, a name ending in ".CLASS", an entry
\* named ".class" and nothing more, an ordinary class
JarD == <<"D">> \o DotJar
clsDirB == <<"a">> \o DotClass \o <<"/", "B">> \o DotClass
aDir == <<"a", "/">>
UpperC == <<"C", ".", "C", "L", "A", "S", "S">>

\* what zipfile.ZipFile finds in each file: JarC is corrupt, Notes is no archive
ZipContent(file) ==
    CASE file = JarA -> [ok |-> TRUE, namelist |-> <<aFoo, aBar, xTxt>>]
      [] file = JarB -> [ok |-> TRUE, namelist |-> <<bFoo, bfoo>>]
      [] file = JarD -> [ok |-> TRUE, namelist |-> <<clsDirB, aDir, UpperC, DotClass, aFoo>>]
      [] OTHER -> [ok |-> FALSE, namelist |-> <<>>]

\* work directories: the local default, one a caller names, those mkdtemp makes
DefaultDir == "./maven_temp"
CallerDir == "w"

\* tempfile.mkdtemp(prefix="maven_analyze_") for the n-th request of a server:
\* a directory of a name no earlier request was given
mkdtemp(n) == "maven_analyze_" \o ToString(n)

TempDir == mkdtemp(1)
Dirs == {DefaultDir, CallerDir} \cup {mkdtemp(n) : n \in 1..MaxRequests}

\* the directory tempfile.TemporaryDirectory() makes for decompile_class
TemporaryDirectory == "tmp_decompile"

(***************************************************************************)
(* Outcomes of a call: a returned value or a raised exception, and the     *)
(* file system the call leaves.                                            *)
(***************************************************************************)
Exc(type, msg) == [type |-> type, msg |-> msg]

Return(value, fsys) == [raised |-> FALSE, exc |-> Exc("", <<>>), value |-> value, fs |-> fsys]

Raise(exc, fsys) == [raised |-> TRUE, exc |-> exc, value |-> <<>>, fs |-> fsys]

\* a path where no directory is
NoDir == [exists |-> FALSE, pom |-> <<>>, files |-> {}]

makedirs(fsys, dir) == [fsys EXCEPT ![dir].exists = TRUE]

rmtree(fsys, dir) == [fsys EXCEPT ![dir] = NoDir]

(***************************************************************************)
(* MavenJarAnalyzer.create_temp_pom                                        *)
(***************************************************************************)
RepoKeys == <<"id", "name", "url">>
DepKeys == <<"groupId", "artifactId", "version">>

\* d[key] for each key in turn: the first key that raises KeyError, <<>> if none
FirstMissing(d, keys) ==
    LET missing == {i \in 1..Len(keys) : keys[i] \notin DOMAIN d}
    IN IF missing = {} THEN <<>>
       ELSE <<keys[CHOOSE i \in missing : \A j \in missing : i <= j]>>

FirstBad(entries, keys) ==
    LET bad == {i \in 1..Len(entries) : FirstMissing(entries[i], keys) # <<>>}
    IN IF bad = {} THEN <<>>
       ELSE FirstMissing(entries[CHOOSE i \in bad : \A j \in bad : i <= j], keys)

RepositoryXml(repo) ==
    [id |-> repo.id, name |-> repo.name, url |-> repo.url,
     snapshots |-> IF "snapshots" \in DOMAIN repo THEN repo.snapshots ELSE "true"]

DependencyXml(dep) ==
    [groupId |-> dep.groupId, artifactId |-> dep.artifactId, version |-> dep.version]

\* the dependencies are emitted last first
PomContentReversed(dependencies, repositories) ==
    [repositories_section |-> repositories # <<>>,
     repositories |-> [i \in 1..Len(repositories) |-> RepositoryXml(repositories[i])],
     dependencies |->
        [i \in 1..Len(dependencies) |->
            DependencyXml(dependencies[Len(dependencies) + 1 - i])]]

\* pom_content: the sections the f-strings emit, in the order they emit them
PomContent(dependencies, repositories) ==
    [repositories_section |-> repositories # <<>>,
     repositories |-> [i \in 1..Len(repositories) |-> RepositoryXml(repositories[i])],
     dependencies |-> [i \in 1..Len(dependencies) |-> DependencyXml(dependencies[i])]]

WriteFile(fsys, dir, content) == [fsys EXCEPT ![dir].pom = <<content>>]

\* the manifest is written before the dependencies are read
create_temp_pom_write_first(fsys, dependencies, output_dir, repositories) ==
    IF FirstBad(repositories, RepoKeys) # <<>>
    THEN Raise(Exc("KeyError", FirstBad(repositories, RepoKeys)), fsys)
    ELSE IF FirstBad(dependencies, DepKeys) # <<>>
    THEN Raise(Exc("KeyError", FirstBad(dependencies, DepKeys)),
               WriteFile(fsys, output_dir, PomContent(<<>>, repositories)))
    ELSE Return(output_dir,
                WriteFile(fsys, output_dir, PomContent(dependencies, repositories)))

create_temp_pom(fsys, dependencies, output_dir, repositories) ==
    IF FirstBad(repositories, RepoKeys) # <<>>
    THEN Raise(Exc("KeyError", FirstBad(repositories, RepoKeys)), fsys)
    ELSE IF FirstBad(dependencies, DepKeys) # <<>>
    THEN Raise(Exc("KeyError", FirstBad(dependencies, DepKeys)), fsys)
    ELSE IF ~fsys[output_dir].exists
    THEN Raise(Exc("FileNotFoundError", <<"No such file or directory">>), fsys)
    ELSE Return(output_dir,
                WriteFile(fsys, output_dir, PomContent(dependencies, repositories)))

(***************************************************************************)
(* MavenJarAnalyzer.download_dependencies                                  *)
(***************************************************************************)
MavenFailed == <<"Maven command failed">>     \* "Maven命令执行失败"

JarPath(dir, file) == [dir |-> dir, file |-> file]

IsJarName(f) == EndsWith(f, DotJar)

\* the exit status is not looked at
download_dependencies_ignore_exit(fsys, output_dir, run, listing) ==
    LET after == [fsys EXCEPT ![output_dir].files = @ \cup run.produced]
        jars == SeqFilterIdx(listing, IsJarName, 1)
    IN Return([i \in 1..Len(jars) |-> JarPath(output_dir, jars[i])], after)

\* run: the resolver subprocess' outcome; listing: os.listdir's order
download_dependencies(fsys, output_dir, run, listing) ==
    LET after == [fsys EXCEPT ![output_dir].files = @ \cup run.produced]
        jars == SeqFilterIdx(listing, IsJarName, 1)
    IN IF run.returncode # 0
       THEN Raise(Exc("Exception", MavenFailed), after)
       ELSE Return([i \in 1..Len(jars) |-> JarPath(output_dir, jars[i])], after)

(***************************************************************************)
(* MavenJarAnalyzer.get_classes_from_jar                                   *)
(***************************************************************************)
\* zipfile.ZipFile(jar_path): the archive, when the file is there and is one
OpenZip(fsys, jar_path) ==
    IF jar_path.dir \in DOMAIN fsys /\ fsys[jar_path.dir].exists
       /\ jar_path.file \in fsys[jar_path.dir].files
    THEN ZipContent(jar_path.file)
    ELSE [ok |-> FALSE, namelist |-> <<>>]

IsClassEntry(file_info) == EndsWith(file_info, DotClass)

\* every ".class" in the path is dropped, not the one at its end
ClassNameOfEverySuffixDropped(file_info) ==
    Replace(Replace(file_info, DotClass, <<>>), <<"/">>, <<".">>)

\* file_info[:-6].replace('/', '.')
ClassNameOf(file_info) ==
    Replace(SubSeq(file_info, 1, Len(file_info) - 6), <<"/">>, <<".">>)

ClassInfo(file_info, jar_path) ==
    [class_name |-> ClassNameOf(file_info), file_path |-> file_info, jar_path |-> jar_path]

get_classes_from_jar(fsys, jar_path) ==
    LET zip == OpenZip(fsys, jar_path)
        entries == SeqFilterIdx(zip.namelist, IsClassEntry, 1)
    IN IF ~zip.ok THEN <<>>
       ELSE [i \in 1..Len(entries) |-> ClassInfo(entries[i], jar_path)]

(***************************************************************************)
(* MavenJarAnalyzer.find_exact_class_in_jars                               *)
(***************************************************************************)
\* the qualified name is taken for the simple name
SimpleNameQualified(cls) == cls.class_name

\* cls['class_name'].split('.')[-1]
SimpleName(cls) == LastSegment(cls.class_name, ".")

\* the match is on the name as requested, case kept
MatchesRequestedCaseSensitive(cls, class_names) ==
    \E i \in 1..Len(class_names) : SimpleName(cls) = class_names[i]

\* class_simple_name.lower() in class_names_lower
MatchesRequested(cls, class_names) ==
    \E i \in 1..Len(class_names) : Lower(SimpleName(cls)) = Lower(class_names[i])

\* result[class_simple_name].append(cls), the key created on first use
AddMatch(result, cls) ==
    IF DictHas(result, SimpleName(cls))
    THEN DictSet(result, SimpleName(cls), Append(DictGet(result, SimpleName(cls)), cls))
    ELSE DictSet(result, SimpleName(cls), <<cls>>)

RECURSIVE FindExactInClasses(_, _, _, _)
FindExactInClasses(result, classes, i, class_names) ==
    IF i > Len(classes) THEN result
    ELSE FindExactInClasses(
             IF MatchesRequested(classes[i], class_names)
             THEN AddMatch(result, classes[i]) ELSE result,
             classes, i + 1, class_names)

\* the scan ends at the first archive that cannot be read
RECURSIVE FindExactInJarsUntilUnreadable(_, _, _, _, _)
FindExactInJarsUntilUnreadable(fsys, result, jars, j, class_names) ==
    IF j > Len(jars) \/ ~OpenZip(fsys, jars[j]).ok THEN result
    ELSE FindExactInJarsUntilUnreadable(
             fsys,
             FindExactInClasses(result, get_classes_from_jar(fsys, jars[j]), 1, class_names),
             jars, j + 1, class_names)

RECURSIVE FindExactInJars(_, _, _, _, _)
FindExactInJars(fsys, result, jars, j, class_names) ==
    IF j > Len(jars) THEN result
    ELSE FindExactInJars(
             fsys,
             FindExactInClasses(result, get_classes_from_jar(fsys, jars[j]), 1, class_names),
             jars, j + 1, class_names)

find_exact_class_in_jars(fsys, jars, class_names) ==
    FindExactInJars(fsys, <<>>, jars, 1, class_names)

(***************************************************************************)
(* MavenJarAnalyzer.find_class_in_jars                                     *)
(***************************************************************************)
\* the pattern is looked for as it is written
MatchesPatternCaseSensitive(cls, class_name_pattern) ==
    Contains(cls.class_name, class_name_pattern)

\* class_name_pattern.lower() in cls['class_name'].lower()
MatchesPattern(cls, class_name_pattern) ==
    Contains(Lower(cls.class_name), Lower(class_name_pattern))

RECURSIVE FindInClasses(_, _, _, _)
FindInClasses(matched_classes, classes, i, class_name_pattern) ==
    IF i > Len(classes) THEN matched_classes
    ELSE FindInClasses(
             IF MatchesPattern(classes[i], class_name_pattern)
             THEN Append(matched_classes, classes[i]) ELSE matched_classes,
             classes, i + 1, class_name_pattern)

RECURSIVE FindInJars(_, _, _, _, _)
FindInJars(fsys, matched_classes, jars, j, class_name_pattern) ==
    IF j > Len(jars) THEN matched_classes
    ELSE FindInJars(
             fsys,
             FindInClasses(matched_classes, get_classes_from_jar(fsys, jars[j]), 1,
                           class_name_pattern),
             jars, j + 1, class_name_pattern)

\* the archives it has read are gone afterwards
find_class_in_jars_consuming(fsys, jars, class_name_pattern) ==
    Return(FindInJars(fsys, <<>>, jars, 1, class_name_pattern),
           [d \in DOMAIN fsys |->
               [fsys[d] EXCEPT !.files = @ \ {jars[j].file : j \in {k \in 1..Len(jars) : jars[k].dir = d}}]])

\* the archives are opened for reading only: the file system is left as found
find_class_in_jars(fsys, jars, class_name_pattern) ==
    Return(FindInJars(fsys, <<>>, jars, 1, class_name_pattern), fsys)

(***************************************************************************)
(* MavenJarAnalyzer.decompile_class                                        *)
(***************************************************************************)
DecompileFailed == <<"decompile failed: ">>   \* "反编译失败: "
DecompileError == <<"decompile error: ">>     \* "反编译出错: "

\* what the with-block raises before javap runs, <<>> when it raises nothing
ExtractError(fsys, jar_path, class_file_path) ==
    LET zip == OpenZip(fsys, jar_path)
        present == jar_path.dir \in DOMAIN fsys /\ fsys[jar_path.dir].exists
                   /\ jar_path.file \in fsys[jar_path.dir].files
    IN IF ~present THEN <<Exc("FileNotFoundError", <<"No such file or directory">>)>>
       ELSE IF ~zip.ok THEN <<Exc("BadZipFile", <<"File is not a zip file">>)>>
       ELSE IF LastSegment(class_file_path, "/") = <<>>
       THEN <<Exc("IsADirectoryError", <<"Is a directory">>)>>
       ELSE IF class_file_path \notin Range(zip.namelist)
       THEN <<Exc("KeyError", <<"There is no item named">>)>>
       ELSE <<>>

\* the file system inside the with-block, when it is left: the temporary
\* directory, and in it the file open(temp_class_file, 'wb') made
Extracted(fsys, jar_path, class_file_path) ==
    LET temp == makedirs(fsys, TemporaryDirectory)
        err == ExtractError(fsys, jar_path, class_file_path)
    IN IF err # <<>> /\ err[1].type # "KeyError" THEN temp
       ELSE [temp EXCEPT ![TemporaryDirectory].files = {LastSegment(class_file_path, "/")}]

\* the exception leaves decompile_class
decompile_class_raising(fsys, jar_path, class_file_path, javap) ==
    LET err == ExtractError(fsys, jar_path, class_file_path)
        after == rmtree(Extracted(fsys, jar_path, class_file_path), TemporaryDirectory)
    IN IF err # <<>> THEN Raise(err[1], after)
       ELSE IF ~javap.spawned
       THEN Raise(Exc("FileNotFoundError", <<"No such file or directory">>), after)
       ELSE IF javap.returncode = 0 THEN Return(javap.stdout, after)
       ELSE Raise(Exc("Exception", javap.stderr), after)

\* the failure text leaves out what javap wrote
decompile_class_drop_stderr(fsys, jar_path, class_file_path, javap) ==
    LET err == ExtractError(fsys, jar_path, class_file_path)
        after == rmtree(Extracted(fsys, jar_path, class_file_path), TemporaryDirectory)
    IN IF err # <<>> THEN Return(DecompileError \o err[1].msg, after)
       ELSE IF ~javap.spawned
       THEN Return(DecompileError \o <<"No such file or directory">>, after)
       ELSE IF javap.returncode = 0 THEN Return(javap.stdout, after)
       ELSE Return(DecompileFailed, after)

\* the temporary directory is removed only when javap has exited 0
decompile_class_leaking(fsys, jar_path, class_file_path, javap) ==
    LET err == ExtractError(fsys, jar_path, class_file_path)
        during == Extracted(fsys, jar_path, class_file_path)
    IN IF err # <<>> THEN Return(DecompileError \o err[1].msg, during)
       ELSE IF ~javap.spawned
       THEN Return(DecompileError \o <<"No such file or directory">>, during)
       ELSE IF javap.returncode = 0
       THEN Return(javap.stdout, rmtree(during, TemporaryDirectory))
       ELSE Return(DecompileFailed \o javap.stderr, during)

\* javap: the disassembler subprocess' outcome; the with-block of
\* tempfile.TemporaryDirectory() removes the directory however it is left
decompile_class(fsys, jar_path, class_file_path, javap) ==
    LET err == ExtractError(fsys, jar_path, class_file_path)
        after == rmtree(Extracted(fsys, jar_path, class_file_path), TemporaryDirectory)
    IN IF err # <<>> THEN Return(DecompileError \o err[1].msg, after)
       ELSE IF ~javap.spawned
       THEN Return(DecompileError \o <<"No such file or directory">>, after)
       ELSE IF javap.returncode = 0 THEN Return(javap.stdout, after)
       ELSE Return(DecompileFailed \o javap.stderr, after)

(***************************************************************************)
(* MavenJarAnalyzer.analyze_class_basic and analyze_class_with_javatools.  *)
(* A class file is a sequence of bytes, each in 0..255.  What a call       *)
(* returns is <<>> for None and <<info>> for a dict.                       *)
(***************************************************************************)
\* get_class_bytecode: jar.read(class_file_path); entry.present says whether
\* the archive has the entry, entry.bytecode is what it holds
get_class_bytecode(entry) ==
    IF entry.present THEN Return(entry.bytecode, <<>>)
    ELSE Raise(Exc("KeyError", <<"There is no item named">>), <<>>)

\* the bytes are read with the lowest address last in weight
FromBytesLittle(bytes) ==
    IF bytes = <<>> THEN 0 ELSE bytes[1] + 256 * bytes[2]

\* int.from_bytes(bytes, 'big') of the two bytes of a version field
FromBytesBig(bytes) ==
    IF bytes = <<>> THEN 0 ELSE 256 * bytes[1] + bytes[2]

\* 0xCAFEBABE, written as the four bytes int.from_bytes(..., 'big') reads
Magic == <<202, 254, 186, 190>>

HexDigit == <<"0", "1", "2", "3", "4", "5", "6", "7", "8", "9", "a", "b", "c", "d", "e", "f">>

RECURSIVE HexDigitsOf(_)
HexDigitsOf(bytes) ==
    IF bytes = <<>> THEN ""
    ELSE HexDigit[(bytes[1] \div 16) + 1] \o HexDigit[(bytes[1] % 16) + 1]
             \o HexDigitsOf(Tail(bytes))

\* hex(magic) of a number whose first byte is 16 or more: no leading zero
Hex(bytes) == "0x" \o HexDigitsOf(bytes)

java_version_map ==
    52 :> "8" @@ 53 :> "9" @@ 54 :> "10" @@ 55 :> "11" @@ 56 :> "12" @@ 57 :> "13"
       @@ 58 :> "14" @@ 59 :> "15" @@ 60 :> "16" @@ 61 :> "17" @@ 62 :> "18"
       @@ 63 :> "19" @@ 64 :> "20" @@ 65 :> "21"

\* java_version_map.get(major_version, f"Unknown ({major_version})")
JavaCompatible(major_version) ==
    IF major_version \in DOMAIN java_version_map THEN java_version_map[major_version]
    ELSE "Unknown (" \o ToString(major_version) \o ")"

BasicInfo(bytecode, minor_version, major_version) ==
    [magic |-> Hex(SubSeq(bytecode, 1, 4)),
     java_version |-> ToString(major_version) \o "." \o ToString(minor_version),
     java_compatible |-> JavaCompatible(major_version),
     bytecode_size |-> Len(bytecode)]

\* the magic number is not looked at
analyze_class_basic_any_magic(entry) ==
    LET read == get_class_bytecode(entry)
        bytecode == read.value
    IN IF read.raised THEN read
       ELSE IF Len(bytecode) < 8 THEN Return(<<>>, <<>>)
       ELSE Return(<<BasicInfo(bytecode, FromBytesBig(SubSeq(bytecode, 5, 6)),
                               FromBytesBig(SubSeq(bytecode, 7, 8)))>>, <<>>)

\* the version fields are read low byte first
analyze_class_basic_little_endian(entry) ==
    LET read == get_class_bytecode(entry)
        bytecode == read.value
    IN IF read.raised THEN read
       ELSE IF Len(bytecode) < 8 THEN Return(<<>>, <<>>)
       ELSE IF SubSeq(bytecode, 1, 4) # Magic THEN Return(<<>>, <<>>)
       ELSE Return(<<BasicInfo(bytecode, FromBytesLittle(SubSeq(bytecode, 5, 6)),
                               FromBytesLittle(SubSeq(bytecode, 7, 8)))>>, <<>>)

analyze_class_basic(entry) ==
    LET read == get_class_bytecode(entry)
        bytecode == read.value
    IN IF read.raised THEN read
       ELSE IF Len(bytecode) < 8 THEN Return(<<>>, <<>>)
       ELSE IF SubSeq(bytecode, 1, 4) # Magic THEN Return(<<>>, <<>>)
       ELSE Return(<<BasicInfo(bytecode, FromBytesBig(SubSeq(bytecode, 5, 6)),
                               FromBytesBig(SubSeq(bytecode, 7, 8)))>>, <<>>)

\* what javatools.unpack_class makes of a class it can parse; the names, the
\* methods and the fields lie in bytes the model leaves out
JavatoolsInfo(bytecode) ==
    [class_name |-> "a.Foo", super_class |-> "java.lang.Object", interfaces |-> <<>>,
     access_flags |-> <<"public">>, methods |-> <<>>, fields |-> <<>>,
     java_version |-> ToString(FromBytesBig(SubSeq(bytecode, 7, 8))) \o "."
                         \o ToString(FromBytesBig(SubSeq(bytecode, 5, 6)))]

\* javatools.unpack_class raises on bytes that do not start with the magic
\* number and a version
Parses(javatools, bytecode) ==
    javatools = "parses" /\ Len(bytecode) >= 8 /\ SubSeq(bytecode, 1, 4) = Magic

\* nothing is tried after javatools
analyze_class_with_javatools_no_fallback(entry, javatools) ==
    LET read == get_class_bytecode(entry)
    IN IF javatools # "absent" /\ ~read.raised /\ Parses(javatools, read.value)
       THEN Return(<<JavatoolsInfo(read.value)>>, <<>>)
       ELSE Return(<<>>, <<>>)

\* javatools: "absent" (the import fails), "fails" (unpack_class or what
\* follows it raises) or "parses"
analyze_class_with_javatools(entry, javatools) ==
    LET read == get_class_bytecode(entry)
    IN IF javatools # "absent" /\ ~read.raised /\ Parses(javatools, read.value)
       THEN Return(<<JavatoolsInfo(read.value)>>, <<>>)
       ELSE analyze_class_basic(entry)

(***************************************************************************)
(* Tool calls and the environment's choices.                               *)
(***************************************************************************)
Servers == {"local", "remote"}

GoodDep == [groupId |-> "org.example", artifactId |-> "lib", version |-> "1.0"]
OtherDep == [groupId |-> "com.other", artifactId |-> "util", version |-> "2.0-SNAPSHOT"]
NoGroupDep == [artifactId |-> "lib", version |-> "1.0"]
NoArtifactDep == [groupId |-> "org.example", version |-> "1.0"]
NoVersionDep == [groupId |-> "org.example", artifactId |-> "lib"]
Deps == {GoodDep, NoGroupDep, NoArtifactDep, NoVersionDep}
DepLists == SeqsUpTo(Deps, MaxDeps)

SnapshotRepo == [id |-> "snap", name |-> "Snapshots", url |-> "https://repo/snap"]
RepoLists == {<<>>, <<SnapshotRepo>>}

TargetLists == SeqsUpTo({Foo, foo, Baz}, MaxTargets)

\* The coordinates and repositories reach create_temp_pom only, the target names
\* find_exact_class_in_jars only: a call varies the one or the other.
AnalyzeArgs ==
    {[dependencies |-> deps, repositories |-> repos, target_classes |-> <<Foo>>] :
        deps \in DepLists, repos \in RepoLists}
    \cup {[dependencies |-> <<GoodDep>>, repositories |-> <<>>, target_classes |-> targets] :
        targets \in TargetLists}

WorkDirArgs == {None, CallerDir}

JarPathArgs == {<<>>, <<JarPath(CallerDir, JarA)>>, <<JarPath(CallerDir, JarB)>>,
                <<JarPath(CallerDir, JarC)>>}
ClassFileArgs == {<<>>, aFoo, bFoo, <<"a", "/">>}

AnalyzeCall(server, tool, deps, targets, repos, wd) ==
    [server |-> server, tool |-> tool, dependencies |-> deps, target_classes |-> targets,
     repositories |-> repos, work_dir |-> wd, jar_path |-> <<>>, class_file_path |-> <<>>]

DecompileCall(server, jar_path, class_file_path) ==
    [server |-> server, tool |-> "decompile_class", dependencies |-> <<>>,
     target_classes |-> <<>>, repositories |-> <<>>, work_dir |-> None,
     jar_path |-> jar_path, class_file_path |-> class_file_path]

NoCall == DecompileCall("none", <<>>, <<>>)

\* the resolver exits non-zero, or exits 0 having copied some files
MvnOutcomes ==
    {[returncode |-> 1, stdout |-> <<>>, stderr |-> <<"BUILD FAILURE">>, produced |-> {}]}
    \cup {[returncode |-> 0, stdout |-> <<"BUILD SUCCESS">>, stderr |-> <<>>, produced |-> P] :
            P \in {Q \in SUBSET Files : Cardinality(Q) <= MaxFiles}}

NoRun == [returncode |-> -1, stdout |-> <<>>, stderr |-> <<>>, produced |-> {}]

\* javap exits 0, exits non-zero, or cannot be spawned
JavapOutcomes ==
    {[spawned |-> TRUE, returncode |-> 0, stdout |-> <<"Compiled from">>, stderr |-> <<>>],
     [spawned |-> TRUE, returncode |-> 1, stdout |-> <<"Usage">>,
      stderr |-> <<"Error: class not found">>],
     [spawned |-> FALSE, returncode |-> -1, stdout |-> <<>>, stderr |-> <<>>]}

\* the file system a call can find: nothing yet, or the caller's directory as an
\* earlier call left it
FreshFs == [d \in Dirs \cup {TemporaryDirectory} |-> NoDir]
UsedFs ==
    [FreshFs EXCEPT ![CallerDir] =
        [exists |-> TRUE, pom |-> <<PomContent(<<GoodDep>>, <<>>)>>, files |-> {JarA, JarC}]]
InitialFs == {FreshFs, UsedFs}

NoResponse == [none |-> TRUE]

\* javap is not reached when the entry cannot be extracted
NotRun == [spawned |-> FALSE, returncode |-> -2, stdout |-> <<>>, stderr |-> <<>>]

\* the forwarding tier has not been called
NoProxyCall == [name |-> None, arguments |-> NoCall, posts |-> <<>>, result |-> NoResponse]

DecompileCallLog(fsys, jar_path, class_file_path, javap) ==
    [jar_path |-> jar_path, class_file_path |-> class_file_path,
     javap |-> IF ExtractError(fsys, jar_path, class_file_path) = <<>> THEN javap ELSE NotRun,
     extracted |-> Extracted(fsys, jar_path, class_file_path)[TemporaryDirectory].files]

Init ==
    /\ pc = "idle"
    /\ req = NoCall
    /\ fs \in InitialFs
    /\ work_dir = None
    /\ temp_dir_created = FALSE
    /\ mvn = NoRun
    /\ jar_files = <<>>
    /\ found_classes = <<>>
    /\ analyze_data = NoResponse
    /\ decompiled_classes = <<>>
    /\ next_class = 1
    /\ response = NoResponse
    /\ calls = <<>>
    /\ decompile_log = <<>>
    /\ fs0 = fs
    /\ proxy = NoProxyCall
    /\ returns = <<>>
    /\ served = <<>>

(***************************************************************************)
(* The servers' handlers, step by step.                                    *)
(***************************************************************************)
IsAnalyzeTool(tool) == tool \in {"analyze_maven_dependency", "find_and_decompile"}

\* a name call_tool has no handler for
UnknownTool == "no_such_tool"

\* a tool call arrives at one of the servers
Receive ==
    /\ pc = "idle"
    /\ \E server \in Servers :
        \/ \E tool \in {"analyze_maven_dependency", "find_and_decompile"},
              args \in AnalyzeArgs, wd \in WorkDirArgs :
                req' = AnalyzeCall(server, tool, args.dependencies, args.target_classes,
                                   args.repositories, wd)
        \/ \E jar_path \in JarPathArgs, class_file_path \in ClassFileArgs :
                req' = DecompileCall(server, jar_path, class_file_path)
        \/ /\ server = "local"
           /\ req' = [NoCall EXCEPT !.server = server, !.tool = UnknownTool]
    /\ pc' = "called"
    /\ UNCHANGED <<proxy, returns, served>>
    /\ UNCHANGED <<fs0, fs, work_dir, temp_dir_created, mvn, jar_files, found_classes,
                   analyze_data, decompiled_classes, next_class, response, calls,
                   decompile_log>>

\* local call_tool's except clause: the envelope {"error": str(e)}
LocalError(exc) == [error |-> exc.msg]

\* remote: raise HTTPException(status_code=500, detail=str(e))
RemoteError(exc) == [status |-> 500, detail |-> exc.msg]

\* the remote handler leaves the directory it made where it is
AbortAnalyzeKeepsTempDir(exc, fsys) ==
    /\ pc' = "done"
    /\ fs' = fsys
    /\ response' = IF req.server = "local" THEN LocalError(exc) ELSE RemoteError(exc)

\* an exception leaves the analyze handler: the remote handler removes the
\* directory it made, the local one leaves everything to call_tool
AbortAnalyze(exc, fsys) ==
    /\ pc' = "done"
    /\ IF req.server = "local"
       THEN /\ response' = LocalError(exc)
            /\ fs' = fsys
       ELSE /\ response' = RemoteError(exc)
            /\ fs' = IF temp_dir_created /\ fsys[work_dir].exists
                     THEN rmtree(fsys, work_dir) ELSE fsys

\* call_tool's else branch
LocalUnknownTool ==
    /\ pc = "called"
    /\ req.server = "local"
    /\ req.tool = UnknownTool
    /\ response' = [error |-> <<"Unknown tool: ", req.tool>>]
    /\ pc' = "done"
    /\ UNCHANGED <<proxy, returns, served>>
    /\ UNCHANGED <<fs0, req, fs, work_dir, temp_dir_created, mvn, jar_files,
                   found_classes, analyze_data, decompiled_classes, next_class, calls,
                   decompile_log>>

\* handle_analyze_dependency, up to os.makedirs
LocalAnalyzeStart ==
    /\ pc = "called"
    /\ req.server = "local"
    /\ IsAnalyzeTool(req.tool)
    /\ LET dir == IF req.work_dir = None THEN DefaultDir ELSE req.work_dir
       IN /\ work_dir' = dir
          /\ fs' = makedirs(fs, dir)
    /\ pc' = "synthesize"
    /\ UNCHANGED <<proxy, returns, served>>
    /\ UNCHANGED <<decompile_log, fs0, req, temp_dir_created, mvn, jar_files,
                   found_classes, analyze_data, decompiled_classes, next_class,
                   response, calls>>

\* the request models require groupId, artifactId and version of every dependency
ValidBody(call) ==
    \A i \in 1..Len(call.dependencies) : FirstMissing(call.dependencies[i], DepKeys) = <<>>

\* find_and_decompile builds its AnalyzeDependencyRequest without work_dir
RemoteWorkDirArg(call) ==
    IF call.tool = "find_and_decompile" THEN None ELSE call.work_dir

\* analyze_dependency, up to the try block
RemoteAnalyzeStart ==
    /\ pc = "called"
    /\ req.server = "remote"
    /\ IsAnalyzeTool(req.tool)
    /\ IF ~ValidBody(req)
       THEN /\ response' = [status |-> 422, detail |-> <<"field required">>]
            /\ pc' = "done"
            /\ UNCHANGED <<fs, work_dir, temp_dir_created>>
       ELSE /\ pc' = "synthesize"
            /\ response' = response
            /\ IF RemoteWorkDirArg(req) = None
               THEN /\ work_dir' = mkdtemp(Len(served) + 1)
                    /\ temp_dir_created' = TRUE
                    /\ fs' = makedirs(fs, mkdtemp(Len(served) + 1))
               ELSE /\ work_dir' = RemoteWorkDirArg(req)
                    /\ temp_dir_created' = FALSE
                    /\ fs' = makedirs(fs, RemoteWorkDirArg(req))
    /\ UNCHANGED <<proxy, returns, served>>
    /\ UNCHANGED <<decompile_log, fs0, req, mvn, jar_files, found_classes,
                   analyze_data, decompiled_classes, next_class, calls>>

\* analyzer.create_temp_pom(dependencies, work_dir, repositories)
Synthesize ==
    /\ pc = "synthesize"
    /\ calls' = Append(calls, "create_temp_pom")
    /\ LET out == create_temp_pom(fs, req.dependencies, work_dir, req.repositories)
       IN IF out.raised
          THEN AbortAnalyze(out.exc, out.fs)
          ELSE /\ fs' = out.fs
               /\ pc' = "fetch"
               /\ response' = response
    /\ UNCHANGED <<proxy, returns, served>>
    /\ UNCHANGED <<decompile_log, fs0, req, work_dir, temp_dir_created, mvn, jar_files,
                   found_classes, analyze_data, decompiled_classes, next_class>>

NoJarFiles == Exc("HTTPException", <<"404: No jar files downloaded">>)

\* analyzer.download_dependencies(pom_path, work_dir); the remote handler then
\* refuses an empty jar_files
Fetch ==
    /\ pc = "fetch"
    /\ calls' = Append(calls, "download_dependencies")
    /\ \E run \in MvnOutcomes :
       \E listing \in Perms(fs[work_dir].files \cup run.produced) :
         LET out == download_dependencies(fs, work_dir, run, listing)
         IN /\ mvn' = run
            /\ IF out.raised
               THEN /\ AbortAnalyze(out.exc, out.fs)
                    /\ jar_files' = jar_files
               ELSE IF req.server = "remote" /\ out.value = <<>>
               THEN /\ AbortAnalyze(NoJarFiles, out.fs)
                    /\ jar_files' = out.value
               ELSE /\ fs' = out.fs
                    /\ jar_files' = out.value
                    /\ pc' = "locate"
                    /\ response' = response
    /\ UNCHANGED <<proxy, returns, served>>
    /\ UNCHANGED <<decompile_log, fs0, req, work_dir, temp_dir_created, found_classes,
                   analyze_data, decompiled_classes, next_class>>

\* analyzer.find_exact_class_in_jars(jar_files, target_classes), which indexes
\* each archive with get_classes_from_jar and matches its classes
Locate ==
    /\ pc = "locate"
    /\ calls' = Append(calls, "find_exact_class_in_jars")
                  \o [i \in 1..Len(jar_files) |-> "get_classes_from_jar"]
    /\ found_classes' = find_exact_class_in_jars(fs, jar_files, req.target_classes)
    /\ pc' = "result"
    /\ UNCHANGED <<proxy, returns, served>>
    /\ UNCHANGED <<decompile_log, fs0, req, fs, work_dir, temp_dir_created, mvn,
                   jar_files, analyze_data, decompiled_classes, next_class, response>>

\* the local result's found_classes: each class info copied field by field
FoundClassesJson(found) ==
    [i \in 1..Len(found) |->
        [k |-> found[i].k,
         v |-> [j \in 1..Len(found[i].v) |->
                  [class_name |-> found[i].v[j].class_name,
                   jar_path |-> found[i].v[j].jar_path,
                   file_path |-> found[i].v[j].file_path]]]]

\* [cls for cls in target_classes if cls not in found_classes]
NotAKey(found, cls) == ~DictHas(found, cls)

MissingClasses(target_classes, found) ==
    LET Missing(cls) == NotAKey(found, cls)
    IN SeqFilterIdx(target_classes, Missing, 1)

LocalResult ==
    [found_classes |-> FoundClassesJson(found_classes),
     jar_files |-> jar_files,
     work_dir |-> work_dir,
     summary |-> [total_jars |-> Len(jar_files),
                  found_classes_count |-> Len(found_classes),
                  missing_classes |-> MissingClasses(req.target_classes, found_classes)]]

RemoteResult ==
    [status |-> 200,
     found_classes |-> found_classes,
     jar_files |-> jar_files,
     work_dir |-> work_dir,
     temp_dir |-> temp_dir_created]

\* the analyze handler builds its result and returns it: to the caller, or to
\* the find-and-decompile handler that called it
BuildResult ==
    /\ pc = "result"
    /\ LET result == IF req.server = "local" THEN LocalResult ELSE RemoteResult
       IN IF req.tool = "analyze_maven_dependency"
          THEN /\ response' = result
               /\ pc' = "done"
               /\ UNCHANGED <<analyze_data, next_class>>
          ELSE /\ analyze_data' = result
               /\ next_class' = 1
               /\ pc' = "decompile"
               /\ response' = response
    /\ UNCHANGED <<proxy, returns, served>>
    /\ UNCHANGED <<decompile_log, fs0, req, fs, work_dir, temp_dir_created, mvn,
                   jar_files, found_classes, decompiled_classes, calls>>

\* the last match stands for the class
RepresentativeLast(class_list) == class_list[Len(class_list)]

\* cls_info = class_list[0]
Representative(class_list) == class_list[1]

\* one iteration of the loop over found_classes.items(): the remote handler
\* catches what decompile_class raises, the local one does not
DecompileNext ==
    /\ pc = "decompile"
    /\ next_class <= Len(analyze_data.found_classes)
    /\ LET item == analyze_data.found_classes[next_class]
       IN IF item.v = <<>>
          THEN /\ next_class' = next_class + 1
               /\ UNCHANGED <<fs, pc, decompiled_classes, response, calls,
                              decompile_log>>
          ELSE \E javap \in JavapOutcomes :
                 LET cls_info == Representative(item.v)
                     out == decompile_class(fs, cls_info.jar_path, cls_info.file_path, javap)
                 IN /\ calls' = Append(calls, "decompile_class")
                    /\ decompile_log' =
                         Append(decompile_log,
                                DecompileCallLog(fs, cls_info.jar_path, cls_info.file_path, javap))
                    /\ fs' = out.fs
                    /\ IF ~out.raised
                       THEN /\ decompiled_classes' = DictSet(decompiled_classes, item.k, out.value)
                            /\ next_class' = next_class + 1
                            /\ UNCHANGED <<pc, response>>
                       ELSE IF req.server = "remote"
                       THEN /\ decompiled_classes' =
                                  DictSet(decompiled_classes, item.k, <<"Error: ">> \o out.exc.msg)
                            /\ next_class' = next_class + 1
                            /\ UNCHANGED <<pc, response>>
                       ELSE /\ response' = LocalError(out.exc)
                            /\ pc' = "done"
                            /\ UNCHANGED <<decompiled_classes, next_class>>
    /\ UNCHANGED <<proxy, returns, served>>
    /\ UNCHANGED <<fs0, req, work_dir, temp_dir_created, mvn, jar_files, found_classes,
                   analyze_data>>

\* {**analyze_data, "decompiled_classes": decompiled_classes}
Merged(data, decompiled) ==
    [key \in DOMAIN data \cup {"decompiled_classes"} |->
        IF key = "decompiled_classes" THEN decompiled ELSE data[key]]

\* the loop is over: the find-and-decompile handler returns the merged result
DecompileDone ==
    /\ pc = "decompile"
    /\ next_class > Len(analyze_data.found_classes)
    /\ response' = Merged(analyze_data, decompiled_classes)
    /\ pc' = "done"
    /\ UNCHANGED <<proxy, returns, served>>
    /\ UNCHANGED <<decompile_log, fs0, req, fs, work_dir, temp_dir_created, mvn,
                   jar_files, found_classes, analyze_data, decompiled_classes,
                   next_class, calls>>

\* class_file_path.replace('/', '.').replace('.class', '')
DecompiledClassName(class_file_path) ==
    Replace(Replace(class_file_path, <<"/">>, <<".">>), DotClass, <<>>)

DecompileResult(jar_path, class_file_path, decompiled_code) ==
    [class_name |-> DecompiledClassName(class_file_path),
     jar_path |-> jar_path,
     class_file_path |-> class_file_path,
     decompiled_code |-> decompiled_code]

RequiredArgs == <<"jar_path and class_file_path are required">>

\* handle_decompile_class
LocalDecompile ==
    /\ pc = "called"
    /\ req.server = "local"
    /\ req.tool = "decompile_class"
    /\ IF req.jar_path = <<>> \/ req.class_file_path = <<>>
       THEN /\ response' = [error |-> RequiredArgs]
            /\ calls' = calls
            /\ decompile_log' = decompile_log
            /\ fs' = fs
       ELSE \E javap \in JavapOutcomes :
              LET out == decompile_class(fs, req.jar_path[1], req.class_file_path, javap)
              IN /\ calls' = Append(calls, "decompile_class")
                 /\ decompile_log' =
                      Append(decompile_log,
                             DecompileCallLog(fs, req.jar_path[1], req.class_file_path, javap))
                 /\ fs' = out.fs
                 /\ response' =
                      IF out.raised THEN LocalError(out.exc)
                      ELSE DecompileResult(req.jar_path[1], req.class_file_path, out.value)
    /\ pc' = "done"
    /\ UNCHANGED <<proxy, returns, served>>
    /\ UNCHANGED <<fs0, req, work_dir, temp_dir_created, mvn, jar_files,
                   found_classes, analyze_data, decompiled_classes, next_class>>

\* os.path.exists(request.jar_path)
PathExists(fsys, jar_path) ==
    /\ jar_path # <<>>
    /\ fsys[jar_path[1].dir].exists
    /\ jar_path[1].file \in fsys[jar_path[1].dir].files

JarNotFound == Exc("HTTPException", <<"404: Jar file not found">>)

\* the remote decompile_class endpoint
RemoteDecompile ==
    /\ pc = "called"
    /\ req.server = "remote"
    /\ req.tool = "decompile_class"
    /\ IF ~PathExists(fs, req.jar_path)
       THEN /\ response' = RemoteError(JarNotFound)
            /\ calls' = calls
            /\ decompile_log' = decompile_log
            /\ fs' = fs
       ELSE \E javap \in JavapOutcomes :
              LET out == decompile_class(fs, req.jar_path[1], req.class_file_path, javap)
              IN /\ calls' = Append(calls, "decompile_class")
                 /\ decompile_log' =
                      Append(decompile_log,
                             DecompileCallLog(fs, req.jar_path[1], req.class_file_path, javap))
                 /\ fs' = out.fs
                 /\ response' =
                      IF out.raised THEN RemoteError(out.exc)
                      ELSE [status |-> 200]
                           @@ DecompileResult(req.jar_path[1], req.class_file_path, out.value)
    /\ pc' = "done"
    /\ UNCHANGED <<proxy, returns, served>>
    /\ UNCHANGED <<fs0, req, work_dir, temp_dir_created, mvn, jar_files,
                   found_classes, analyze_data, decompiled_classes, next_class>>

Next ==
    \/ Receive
    \/ LocalUnknownTool
    \/ LocalAnalyzeStart
    \/ RemoteAnalyzeStart
    \/ Synthesize
    \/ Fetch
    \/ Locate
    \/ BuildResult
    \/ DecompileNext
    \/ DecompileDone
    \/ LocalDecompile
    \/ RemoteDecompile

Spec == Init /\ [][Next]_vars

(***************************************************************************)
(* The forwarding tier (src/v2/maven_jar_mcp_proxy.py) in front of the     *)
(* remote server.                                                          *)
(***************************************************************************)
REMOTE_SERVER_URL == "http://localhost:8000"

ProxyTools == {"analyze_maven_dependency", "decompile_class", "find_and_decompile"}

\* every handler posts to the analyze endpoint
ProxyPathAnalyzeOnly(name) == "/api/analyze"

\* the sub-path each handler posts to
ProxyPath(name) ==
    CASE name = "analyze_maven_dependency" -> "/api/analyze"
      [] name = "decompile_class" -> "/api/decompile"
      [] name = "find_and_decompile" -> "/api/find-and-decompile"

AnalyzeArguments(args, wd) ==
    [dependencies |-> args.dependencies, target_classes |-> args.target_classes,
     repositories |-> args.repositories, work_dir |-> wd]

DecompileArguments(jar_path, class_file_path) ==
    [jar_path |-> jar_path, class_file_path |-> class_file_path]

\* the arguments a client can call each tool with
ProxyArguments(name) ==
    IF name = "decompile_class"
    THEN {DecompileArguments(jar_path, class_file_path) :
            jar_path \in JarPathArgs, class_file_path \in ClassFileArgs}
    ELSE {AnalyzeArguments(args, wd) : args \in AnalyzeArgs, wd \in WorkDirArgs}

\* the request the remote endpoint at the path makes of a JSON body
RemoteRequest(path, json) ==
    CASE path = "/api/decompile" -> DecompileCall("remote", json.jar_path, json.class_file_path)
      [] path = "/api/analyze" ->
           AnalyzeCall("remote", "analyze_maven_dependency", json.dependencies,
                       json.target_classes, json.repositories, json.work_dir)
      [] path = "/api/find-and-decompile" ->
           AnalyzeCall("remote", "find_and_decompile", json.dependencies,
                       json.target_classes, json.repositories, json.work_dir)

\* str(e) of the httpx.HTTPStatusError raise_for_status() raises
StatusError(status, path) ==
    <<IF status >= 500 THEN "Server error" ELSE "Client error", ToString(status),
      "for url", REMOTE_SERVER_URL, path>>

ConnectError == <<"All connection attempts failed">>

\* the except httpx.HTTPError clause of the three handlers
ProxyError(message) ==
    [error |-> <<"Remote server error: ">> \o message, remote_url |-> REMOTE_SERVER_URL]

\* what a handler returns for the remote server's answer
ProxyResult(answer, path) ==
    IF answer.status >= 400
    THEN ProxyError(StatusError(answer.status, path))
    ELSE [f \in DOMAIN answer \ {"status"} |-> answer[f]]

\* call_tool, and the handler it picks up to its client.post: the remote
\* server may not be reachable
ProxyCallTool ==
    /\ pc = "idle"
    /\ proxy = NoProxyCall
    /\ \/ /\ proxy' = [name |-> UnknownTool, arguments |-> NoCall, posts |-> <<>>,
                        result |-> [error |-> <<"Unknown tool: ", UnknownTool>>]]
          /\ UNCHANGED <<pc, req>>
       \/ \E name \in ProxyTools : \E arguments \in ProxyArguments(name) :
          \E reachable \in BOOLEAN :
            LET post == [url |-> REMOTE_SERVER_URL, path |-> ProxyPath(name),
                         json |-> arguments]
            IN IF reachable
               THEN /\ proxy' = [name |-> name, arguments |-> arguments,
                                 posts |-> <<post>>, result |-> NoResponse]
                    /\ req' = RemoteRequest(post.path, post.json)
                    /\ pc' = "called"
               ELSE /\ proxy' = [name |-> name, arguments |-> arguments,
                                 posts |-> <<post>>, result |-> ProxyError(ConnectError)]
                    /\ UNCHANGED <<pc, req>>
    /\ UNCHANGED <<fs, work_dir, temp_dir_created, mvn, jar_files, found_classes,
                   analyze_data, decompiled_classes, next_class, response, calls,
                   decompile_log, fs0, returns, served>>

\* the remote server has answered: the handler returns its result to call_tool
ProxyReturn ==
    /\ pc = "done"
    /\ proxy.posts # <<>>
    /\ proxy.result = NoResponse
    /\ proxy' = [proxy EXCEPT !.result = ProxyResult(response, proxy.posts[1].path)]
    /\ UNCHANGED <<pc, req, fs, work_dir, temp_dir_created, mvn, jar_files, found_classes,
                   analyze_data, decompiled_classes, next_class, response, calls,
                   decompile_log, fs0, returns, served>>

NextProxy ==
    \/ ProxyCallTool
    \/ RemoteAnalyzeStart
    \/ Synthesize
    \/ Fetch
    \/ Locate
    \/ BuildResult
    \/ DecompileNext
    \/ DecompileDone
    \/ RemoteDecompile
    \/ ProxyReturn

SpecProxy == Init /\ [][NextProxy]_vars

(***************************************************************************)
(* The proxy's JSON-RPC endpoint, root_post.  A JSON object is a record of *)
(* the keys it may have, each <<>> when the key is not there and <<value>> *)
(* when it is; a value that is looked into carries its JSON kind.          *)
(***************************************************************************)
JsonNull == [kind |-> "null"]
JsonArray == [kind |-> "array"]
JsonObject(name, arguments) == [kind |-> "object", name |-> name, arguments |-> arguments]

\* one call each tool can be made with
RpcArguments(name) ==
    IF name = "decompile_class"
    THEN DecompileArguments(<<JarPath(CallerDir, JarA)>>, aFoo)
    ELSE AnalyzeArguments([dependencies |-> <<GoodDep>>, repositories |-> <<>>,
                           target_classes |-> <<Foo>>], None)

\* the params a tools/call can come with: none, null, an array, an object
\* without name, with an empty name, with an unknown name, with a tool's name
RpcParams ==
    {<<>>, <<JsonNull>>, <<JsonArray>>, <<JsonObject(<<>>, <<>>)>>,
     <<JsonObject(<<"">>, <<>>)>>, <<JsonObject(<<UnknownTool>>, <<>>)>>}
        \cup {<<JsonObject(<<name>>, <<RpcArguments(name)>>)>> : name \in ProxyTools}

RpcMethods ==
    {<<>>, <<"initialize">>, <<"tools/list">>, <<"tools/call">>,
     <<"notifications/initialized">>, <<"resources/list">>}

RpcIds == {<<>>, <<"7">>}

RpcBodies ==
    {[method |-> method, id |-> id, params |-> params] :
        method \in RpcMethods, id \in RpcIds,
        params \in {<<>>}} \cup
    {[method |-> <<"tools/call">>, id |-> id, params |-> params] :
        id \in RpcIds, params \in RpcParams}

\* body.get(key): None when the key is not there
JsonGet(member) == IF member = <<>> THEN None ELSE member[1]

\* body.get("method", "")
Method(body) == IF body.method = <<>> THEN "" ELSE body.method[1]

\* body.get("params", {})
Params(body) == IF body.params = <<>> THEN JsonObject(<<>>, <<>>) ELSE body.params[1]

\* `not tool_name`: the key is not there, or the name is empty
NoToolName(params) == params.name = <<>> \/ params.name[1] = ""

Ok(content) == [status |-> 200, body |-> content]

RpcResult(request_id, result) ==
    Ok([jsonrpc |-> "2.0", id |-> request_id, result |-> result])

RpcError(request_id, code, message) ==
    Ok([jsonrpc |-> "2.0", id |-> request_id,
        error |-> [code |-> code, message |-> message]])

\* the except clause of root_post
RpcInternalError(request_id, message) ==
    [status |-> 500,
     body |-> [jsonrpc |-> "2.0", id |-> request_id,
               error |-> [code |-> -32603, message |-> message]]]

InitializeResult ==
    [protocolVersion |-> "2024-11-05",
     capabilities |-> [tools |-> <<>>, resources |-> <<>>, prompts |-> <<>>],
     serverInfo |-> [name |-> "maven-jar-analyzer-proxy", version |-> "2.0.0"]]

ToolsListResult ==
    [tools |-> <<"analyze_maven_dependency", "decompile_class", "find_and_decompile">>]

\* the content list made of call_tool's TextContent
ToolResult(result) == [content |-> <<[type |-> "text", text |-> result]>>]

\* tools/call reaches call_tool: params is an object that has a name
CallsTool(body) ==
    /\ Method(body) = "tools/call"
    /\ Params(body).kind = "object"
    /\ ~NoToolName(Params(body))

\* what root_post answers without calling a tool
RootPostAnswer(body) ==
    LET method == Method(body)
        request_id == JsonGet(body.id)
    IN CASE method = "initialize" -> RpcResult(request_id, InitializeResult)
         [] method = "tools/list" -> RpcResult(request_id, ToolsListResult)
         [] method = "tools/call" ->
              IF Params(body).kind # "object"
              THEN RpcInternalError(request_id, <<"object has no attribute 'get'">>)
              ELSE RpcError(request_id, -32602, <<"Missing tool name in params">>)
         [] method = "notifications/initialized" -> Ok([jsonrpc |-> "2.0"])
         [] OTHER -> RpcError(request_id, -32601, <<"Method not found: ", method>>)

\* root_post, up to its answer or, when a tool's handler posts to the remote
\* server, up to that post
RootPost ==
    /\ pc = "idle"
    /\ served = <<>>
    /\ proxy = NoProxyCall
    /\ \E body \in RpcBodies : \E reachable \in BOOLEAN :
          /\ served' = <<body>>
          /\ IF ~CallsTool(body)
             THEN /\ returns' = <<RootPostAnswer(body)>>
                  /\ UNCHANGED <<proxy, pc, req>>
             ELSE LET name == Params(body).name[1]
                      arguments == Params(body).arguments
                  IN IF name \notin ProxyTools
                     THEN /\ proxy' = [name |-> name, arguments |-> NoCall, posts |-> <<>>,
                                       result |-> [error |-> <<"Unknown tool: ", name>>]]
                          /\ returns' = <<RpcResult(JsonGet(body.id),
                                                    ToolResult(proxy'.result))>>
                          /\ UNCHANGED <<pc, req>>
                     ELSE LET post == [url |-> REMOTE_SERVER_URL, path |-> ProxyPath(name),
                                       json |-> arguments[1]]
                          IN IF reachable
                             THEN /\ proxy' = [name |-> name, arguments |-> arguments[1],
                                               posts |-> <<post>>, result |-> NoResponse]
                                  /\ req' = RemoteRequest(post.path, post.json)
                                  /\ pc' = "called"
                                  /\ returns' = returns
                             ELSE /\ proxy' = [name |-> name, arguments |-> arguments[1],
                                               posts |-> <<post>>,
                                               result |-> ProxyError(ConnectError)]
                                  /\ returns' = <<RpcResult(JsonGet(body.id),
                                                            ToolResult(proxy'.result))>>
                                  /\ UNCHANGED <<pc, req>>
    /\ UNCHANGED <<fs, work_dir, temp_dir_created, mvn, jar_files, found_classes,
                   analyze_data, decompiled_classes, next_class, response, calls,
                   decompile_log, fs0>>

\* the remote server has answered: the handler returns to call_tool, call_tool
\* to root_post, root_post answers
RootPostReturn ==
    /\ pc = "done"
    /\ proxy.posts # <<>>
    /\ proxy.result = NoResponse
    /\ returns = <<>>
    /\ proxy' = [proxy EXCEPT !.result = ProxyResult(response, proxy.posts[1].path)]
    /\ returns' = <<RpcResult(JsonGet(served[1].id), ToolResult(proxy'.result))>>
    /\ UNCHANGED <<pc, req, fs, work_dir, temp_dir_created, mvn, jar_files, found_classes,
                   analyze_data, decompiled_classes, next_class, response, calls,
                   decompile_log, fs0, served>>

NextRpc ==
    \/ RootPost
    \/ RemoteAnalyzeStart
    \/ Synthesize
    \/ Fetch
    \/ Locate
    \/ BuildResult
    \/ DecompileNext
    \/ DecompileDone
    \/ RemoteDecompile
    \/ RootPostReturn

SpecRpc == Init /\ [][NextRpc]_vars

(***************************************************************************)
(* get_classes_from_jar, called as a library function on one archive path  *)
(* while the archives may change in between.                               *)
(***************************************************************************)
IndexCall(jar_path) ==
    [server |-> "library", tool |-> "get_classes_from_jar", jar_path |-> jar_path]

\* the paths a caller indexes: the files of a directory, and one path under a
\* directory that is not there
IndexPaths ==
    {JarPath(CallerDir, f) : f \in {JarA, JarB, JarC, JarD, Notes}}
        \cup {JarPath(DefaultDir, JarD)}

IndexFs ==
    [FreshFs EXCEPT ![CallerDir] =
        [exists |-> TRUE, pom |-> <<>>, files |-> {JarA, JarB, JarC, JarD, Notes}]]

\* analyzer.get_classes_from_jar(jar_path)
Index ==
    /\ req.tool = "get_classes_from_jar"
    /\ Len(returns) < MaxCalls
    /\ returns' = Append(returns, [before |-> fs,
                                   value |-> get_classes_from_jar(fs, req.jar_path),
                                   after |-> fs])
    /\ UNCHANGED <<pc, req, fs, work_dir, temp_dir_created, mvn, jar_files, found_classes,
                   analyze_data, decompiled_classes, next_class, response, calls,
                   decompile_log, fs0, proxy, served>>

(***************************************************************************)
(* find_class_in_jars, called as a library function: the same call made    *)
(* again and again while the archives may change in between.               *)
(***************************************************************************)
Archives == {JarA, JarB, JarC}

Patterns == {<<>>, <<"F">>, <<".", "f", "o">>, <<"a", ".", "B">>, <<"Z">>}

\* lists of up to MaxJars different archive paths
JarLists ==
    {jars \in SeqsUpTo({JarPath(CallerDir, f) : f \in Archives}, MaxJars) :
        \A i, j \in 1..Len(jars) : i # j => jars[i] # jars[j]}

FindCall(jars, class_name_pattern) ==
    [server |-> "library", tool |-> "find_class_in_jars", jar_files |-> jars,
     class_name_pattern |-> class_name_pattern]

\* a directory holding the archives
FindFs == [FreshFs EXCEPT ![CallerDir] = [exists |-> TRUE, pom |-> <<>>, files |-> Archives]]

InitFind ==
    /\ pc = "idle"
    /\ req \in {FindCall(jars, pattern) : jars \in JarLists, pattern \in Patterns}
    /\ fs = FindFs
    /\ work_dir = None
    /\ temp_dir_created = FALSE
    /\ mvn = NoRun
    /\ jar_files = <<>>
    /\ found_classes = <<>>
    /\ analyze_data = NoResponse
    /\ decompiled_classes = <<>>
    /\ next_class = 1
    /\ response = NoResponse
    /\ calls = <<>>
    /\ decompile_log = <<>>
    /\ fs0 = fs
    /\ proxy = NoProxyCall
    /\ returns = <<>>
    /\ served = <<>>

\* analyzer.find_class_in_jars(jar_files, class_name_pattern)
Find ==
    /\ Len(returns) < MaxCalls
    /\ LET out == find_class_in_jars(fs, req.jar_files, req.class_name_pattern)
       IN /\ returns' = Append(returns, [before |-> fs, value |-> out.value, after |-> out.fs])
          /\ fs' = out.fs
    /\ UNCHANGED <<pc, req, work_dir, temp_dir_created, mvn, jar_files, found_classes,
                   analyze_data, decompiled_classes, next_class, response, calls,
                   decompile_log, fs0, proxy, served>>

\* between two calls somebody adds an archive to the directory or removes one
ArchivesChange ==
    /\ \E f \in Archives :
          fs' = [fs EXCEPT ![CallerDir].files = IF f \in @ THEN @ \ {f} ELSE @ \cup {f}]
    /\ UNCHANGED <<pc, req, work_dir, temp_dir_created, mvn, jar_files, found_classes,
                   analyze_data, decompiled_classes, next_class, response, calls,
                   decompile_log, fs0, proxy, returns, served>>

NextFind ==
    \/ Find
    \/ ArchivesChange

SpecFind == InitFind /\ [][NextFind]_vars

(***************************************************************************)
(* A caller that looks the same archive list up both ways, by names and by *)
(* pattern, while the archives may change in between.                      *)
(***************************************************************************)
LocateCall(jars, class_names, class_name_pattern) ==
    [server |-> "library", tool |-> "locate", jar_files |-> jars,
     class_names |-> class_names, class_name_pattern |-> class_name_pattern]

\* what is looked for: names for find_exact_class_in_jars, a pattern for
\* find_class_in_jars
Queries == {<<(<<Foo>>), (<<"F">>)>>, <<(<<Bar, foo>>), (<<"a", ".", "B">>)>>}

InitLocate ==
    /\ pc = "idle"
    /\ req \in {LocateCall(jars, q[1], q[2]) : jars \in JarLists, q \in Queries}
    /\ fs = FindFs
    /\ work_dir = None
    /\ temp_dir_created = FALSE
    /\ mvn = NoRun
    /\ jar_files = <<>>
    /\ found_classes = <<>>
    /\ analyze_data = NoResponse
    /\ decompiled_classes = <<>>
    /\ next_class = 1
    /\ response = NoResponse
    /\ calls = <<>>
    /\ decompile_log = <<>>
    /\ fs0 = fs
    /\ proxy = NoProxyCall
    /\ returns = <<>>
    /\ served = <<>>

\* analyzer.find_exact_class_in_jars(jar_files, class_names), then
\* analyzer.find_class_in_jars(jar_files, class_name_pattern)
LocateBothWays ==
    /\ req.tool = "locate"
    /\ Len(returns) < MaxCalls
    /\ LET exact == find_exact_class_in_jars(fs, req.jar_files, req.class_names)
           out == find_class_in_jars(fs, req.jar_files, req.class_name_pattern)
       IN /\ returns' = Append(returns, [before |-> fs, exact |-> exact, raised |-> out.raised,
                                         value |-> out.value, after |-> out.fs])
          /\ fs' = out.fs
    /\ UNCHANGED <<pc, req, work_dir, temp_dir_created, mvn, jar_files, found_classes,
                   analyze_data, decompiled_classes, next_class, response, calls,
                   decompile_log, fs0, proxy, served>>

NextLocate ==
    \/ LocateBothWays
    \/ ArchivesChange

SpecLocate == InitLocate /\ [][NextLocate]_vars

(***************************************************************************)
(* The two inspections called as library functions on one archive entry.   *)
(***************************************************************************)
\* class files cut off after n bytes: a magic number, right or wrong, the
\* minor version, the major version, one byte of what follows (zeros beyond)
ClassHeaders ==
    {magic \o minor \o <<hi, lo>> \o [i \in 1..(MaxBytes - 8) |-> IF i = 1 THEN 7 ELSE 0] :
        magic \in {Magic, <<202, 254, 186, 191>>, <<0, 254, 186, 190>>},
        minor \in {<<0, 0>>, <<1, 3>>, <<255, 255>>},
        hi \in {0, 1, 255},
        lo \in {0, 45} \cup 51..66 \cup {255}}

Buffers == {SubSeq(header, 1, n) : header \in ClassHeaders, n \in 0..MaxBytes}

Entries ==
    {[present |-> TRUE, bytecode |-> b] : b \in Buffers}
        \cup {[present |-> FALSE, bytecode |-> <<>>]}

InspectCall(entry, javatools) ==
    [server |-> "library", tool |-> "analyze_class", entry |-> entry, javatools |-> javatools]

InitInspect ==
    /\ pc = "idle"
    /\ req \in {InspectCall(entry, javatools) :
                    entry \in Entries, javatools \in {"absent", "fails", "parses"}}
    /\ fs = FreshFs
    /\ work_dir = None
    /\ temp_dir_created = FALSE
    /\ mvn = NoRun
    /\ jar_files = <<>>
    /\ found_classes = <<>>
    /\ analyze_data = NoResponse
    /\ decompiled_classes = <<>>
    /\ next_class = 1
    /\ response = NoResponse
    /\ calls = <<>>
    /\ decompile_log = <<>>
    /\ fs0 = fs
    /\ proxy = NoProxyCall
    /\ returns = <<>>
    /\ served = <<>>

\* analyzer.analyze_class_basic(jar_path, class_file_path)
InspectBasic ==
    /\ req.tool = "analyze_class"
    /\ Len(returns) < MaxCalls
    /\ LET out == analyze_class_basic(req.entry)
       IN returns' = Append(returns, [call |-> "analyze_class_basic", raised |-> out.raised,
                                      exc |-> out.exc, value |-> out.value])
    /\ UNCHANGED <<pc, req, fs, work_dir, temp_dir_created, mvn, jar_files, found_classes,
                   analyze_data, decompiled_classes, next_class, response, calls,
                   decompile_log, fs0, proxy, served>>

\* analyzer.analyze_class_with_javatools(jar_path, class_file_path)
InspectWithJavatools ==
    /\ req.tool = "analyze_class"
    /\ Len(returns) < MaxCalls
    /\ LET out == analyze_class_with_javatools(req.entry, req.javatools)
       IN returns' = Append(returns, [call |-> "analyze_class_with_javatools",
                                      raised |-> out.raised, exc |-> out.exc,
                                      value |-> out.value])
    /\ UNCHANGED <<pc, req, fs, work_dir, temp_dir_created, mvn, jar_files, found_classes,
                   analyze_data, decompiled_classes, next_class, response, calls,
                   decompile_log, fs0, proxy, served>>

NextInspect ==
    \/ InspectBasic
    \/ InspectWithJavatools

SpecInspect == InitInspect /\ [][NextInspect]_vars

(***************************************************************************)
(* create_temp_pom called as a library function.                           *)
(***************************************************************************)
ReleaseRepo == [id |-> "rel", name |-> "Releases", url |-> "https://repo/rel",
                snapshots |-> "false"]

PomCall(dependencies, output_dir, repositories) ==
    [server |-> "library", tool |-> "create_temp_pom", dependencies |-> dependencies,
     work_dir |-> output_dir, repositories |-> repositories]

\* a directory that is there and one that is not
PomFs == [FreshFs EXCEPT ![CallerDir].exists = TRUE]

InitPom ==
    /\ pc = "idle"
    /\ req \in {PomCall(deps, dir, repos) :
                    deps \in SeqsUpTo({GoodDep, OtherDep, NoVersionDep}, MaxDeps),
                    dir \in {CallerDir, DefaultDir},
                    repos \in {<<>>, <<SnapshotRepo>>, <<ReleaseRepo, SnapshotRepo>>}}
    /\ fs = PomFs
    /\ work_dir = None
    /\ temp_dir_created = FALSE
    /\ mvn = NoRun
    /\ jar_files = <<>>
    /\ found_classes = <<>>
    /\ analyze_data = NoResponse
    /\ decompiled_classes = <<>>
    /\ next_class = 1
    /\ response = NoResponse
    /\ calls = <<>>
    /\ decompile_log = <<>>
    /\ fs0 = fs
    /\ proxy = NoProxyCall
    /\ returns = <<>>
    /\ served = <<>>

\* analyzer.create_temp_pom(dependencies, output_dir, repositories)
WritePom ==
    /\ req.tool = "create_temp_pom"
    /\ Len(returns) < MaxCalls
    /\ LET out == create_temp_pom(fs, req.dependencies, req.work_dir, req.repositories)
       IN /\ returns' = Append(returns, [raised |-> out.raised, exc |-> out.exc,
                                         value |-> out.value, after |-> out.fs])
          /\ fs' = out.fs
    /\ UNCHANGED <<pc, req, work_dir, temp_dir_created, mvn, jar_files, found_classes,
                   analyze_data, decompiled_classes, next_class, response, calls,
                   decompile_log, fs0, proxy, served>>

NextPom ==
    \/ WritePom

SpecPom == InitPom /\ [][NextPom]_vars

InitIndex ==
    /\ pc = "idle"
    /\ req \in {IndexCall(jar_path) : jar_path \in IndexPaths}
    /\ fs = IndexFs
    /\ work_dir = None
    /\ temp_dir_created = FALSE
    /\ mvn = NoRun
    /\ jar_files = <<>>
    /\ found_classes = <<>>
    /\ analyze_data = NoResponse
    /\ decompiled_classes = <<>>
    /\ next_class = 1
    /\ response = NoResponse
    /\ calls = <<>>
    /\ decompile_log = <<>>
    /\ fs0 = fs
    /\ proxy = NoProxyCall
    /\ returns = <<>>
    /\ served = <<>>

\* the caller has the local server decompile an entry the index listed:
\* handle_decompile_class with the record's jar_path and file_path
DecompileIndexed ==
    /\ req.tool = "get_classes_from_jar"
    /\ returns # <<>>
    /\ response = NoResponse
    /\ \E i \in 1..Len(returns[Len(returns)].value), javap \in JavapOutcomes :
          LET cls == returns[Len(returns)].value[i]
              out == decompile_class(fs, cls.jar_path, cls.file_path, javap)
          IN /\ calls' = Append(calls, "decompile_class")
             /\ decompile_log' =
                  Append(decompile_log, DecompileCallLog(fs, cls.jar_path, cls.file_path, javap))
             /\ fs' = out.fs
             /\ response' = DecompileResult(cls.jar_path, cls.file_path, out.value)
    /\ UNCHANGED <<pc, req, work_dir, temp_dir_created, mvn, jar_files, found_classes,
                   analyze_data, decompiled_classes, next_class, fs0, proxy, returns,
                   served>>

NextIndex ==
    \/ Index
    \/ ArchivesChange
    \/ DecompileIndexed

SpecIndex == InitIndex /\ [][NextIndex]_vars

(***************************************************************************)
(* A server serving analyze requests one after the other.                  *)
(***************************************************************************)
\* what is kept of a request that has been served
ServedRequest ==
    [server |-> req.server, work_dir_arg |-> req.work_dir, work_dir |-> work_dir,
     dependencies |-> req.dependencies, produced |-> mvn.produced]

\* the next analyze request arrives: the handler starts with fresh locals, the
\* file system is as the requests before left it
SessionReceive ==
    /\ pc \in {"idle", "done"}
    /\ Len(served) + (IF pc = "done" THEN 1 ELSE 0) < MaxRequests
    /\ \E server \in Servers, wd \in WorkDirArgs, dep \in {GoodDep, OtherDep} :
          req' = AnalyzeCall(server, "analyze_maven_dependency", <<dep>>, <<Foo>>, <<>>, wd)
    /\ served' = IF pc = "done" THEN Append(served, ServedRequest) ELSE served
    /\ pc' = "called"
    /\ fs0' = fs
    /\ work_dir' = None
    /\ temp_dir_created' = FALSE
    /\ mvn' = NoRun
    /\ jar_files' = <<>>
    /\ found_classes' = <<>>
    /\ response' = NoResponse
    /\ calls' = <<>>
    /\ UNCHANGED <<fs, analyze_data, decompiled_classes, next_class, decompile_log,
                   proxy, returns>>

InitSession ==
    /\ Init
    /\ fs = FreshFs

NextSession ==
    \/ SessionReceive
    \/ LocalAnalyzeStart
    \/ RemoteAnalyzeStart
    \/ Synthesize
    \/ Fetch
    \/ Locate
    \/ BuildResult

SpecSession == InitSession /\ [][NextSession]_vars

(***************************************************************************)
(* The remote server's cleanup endpoint, called for work directories that  *)
(* earlier requests have left behind or that are not there.                *)
(***************************************************************************)
\* a path that is not there is refused
cleanup_work_dir_absent_refused(fsys, dir) ==
    IF fsys[dir].exists
    THEN Return([status |-> 200,
                 body |-> [status |-> "success", message |-> <<"Cleaned up ", dir>>]],
                rmtree(fsys, dir))
    ELSE Return([status |-> 404, detail |-> <<"Directory not found: ", dir>>], fsys)

\* DELETE /api/cleanup/{work_dir}
cleanup_work_dir(fsys, dir) ==
    IF fsys[dir].exists
    THEN Return([status |-> 200,
                 body |-> [status |-> "success", message |-> <<"Cleaned up ", dir>>]],
                rmtree(fsys, dir))
    ELSE Return([status |-> 200,
                 body |-> [status |-> "not_found",
                           message |-> <<"Directory not found: ", dir>>]],
                fsys)

\* a work directory as an analyze request leaves it
LeftBehind ==
    [exists |-> TRUE, pom |-> <<PomContent(<<GoodDep>>, <<>>)>>, files |-> {JarA, JarC}]

\* each work directory is there, as some request left it, or is not
CleanupFs ==
    {fsys \in [Dirs \cup {TemporaryDirectory} -> {NoDir, LeftBehind}] :
        fsys[TemporaryDirectory] = NoDir}

InitCleanup ==
    /\ pc = "idle"
    /\ req = NoCall
    /\ fs \in CleanupFs
    /\ work_dir = None
    /\ temp_dir_created = FALSE
    /\ mvn = NoRun
    /\ jar_files = <<>>
    /\ found_classes = <<>>
    /\ analyze_data = NoResponse
    /\ decompiled_classes = <<>>
    /\ next_class = 1
    /\ response = NoResponse
    /\ calls = <<>>
    /\ decompile_log = <<>>
    /\ fs0 = fs
    /\ proxy = NoProxyCall
    /\ returns = <<>>
    /\ served = <<>>

\* a cleanup request is served
Cleanup ==
    /\ Len(served) < MaxCleanups
    /\ \E dir \in Dirs :
          LET out == cleanup_work_dir(fs, dir)
          IN /\ fs' = out.fs
             /\ response' = out.value
             /\ served' = Append(served, [server |-> "remote", work_dir_arg |-> dir,
                                          before |-> fs, after |-> out.fs,
                                          response |-> out.value])
    /\ UNCHANGED <<pc, req, work_dir, temp_dir_created, mvn, jar_files, found_classes,
                   analyze_data, decompiled_classes, next_class, calls, decompile_log,
                   fs0, proxy, returns>>

NextCleanup ==
    \/ Cleanup

SpecCleanup == InitCleanup /\ [][NextCleanup]_vars

(***************************************************************************)
(* What the claims speak of.                                               *)
(***************************************************************************)
\* an aborting error: the local {"error": ...} envelope, a remote non-200
IsError(r) == "error" \in DOMAIN r \/ ("status" \in DOMAIN r /\ r.status # 200)

ErrorText(r) == IF "error" \in DOMAIN r THEN r.error ELSE r.detail

AnalyzeStages == <<"create_temp_pom", "download_dependencies", "find_exact_class_in_jars">>

IsFailureText(text) ==
    StartsWithAt(text, 1, DecompileFailed) \/ StartsWithAt(text, 1, DecompileError)

\* C1: analyze runs synthesize, fetch, index+locate in that order, each at
\* most once, and is done only after them; when the resolver exits non-zero the
\* call ends with the fetch error, no archive is indexed and no found-classes
\* result is returned.
C1_StagesInOrderFetchFailureAborts ==
    IsAnalyzeTool(req.tool) =>
        /\ \A i \in 1..Len(calls) :
              IF i <= 3 THEN calls[i] = AnalyzeStages[i]
              ELSE calls[i] \in {"get_classes_from_jar", "decompile_class"}
        /\ (pc = "done" /\ ~IsError(response)) => Len(calls) >= 3
        /\ mvn.returncode > 0 =>
              /\ pc = "done"
              /\ IsError(response)
              /\ ErrorText(response) = MavenFailed
              /\ Len(calls) = 2
              /\ found_classes = <<>>
              /\ "found_classes" \notin DOMAIN response

C1_FetchFailed ==
    /\ pc = "done"
    /\ IsAnalyzeTool(req.tool)
    /\ mvn.returncode = 1
    /\ IsError(response)
    /\ calls = <<"create_temp_pom", "download_dependencies">>

\* C2: once analyze has succeeded inside find-and-decompile, every iteration
\* over the located classes leaves an entry under that class's key, a failed
\* decompile leaves failure text there (with javap's stderr when javap exited
\* non-zero), the loop runs to its end and the call returns found_classes and
\* decompiled_classes with the same keys, not an error.
C2_DecompileStagePartialFailure ==
    (req.tool = "find_and_decompile" /\ "found_classes" \in DOMAIN analyze_data) =>
        LET items == analyze_data.found_classes
        IN /\ pc \in {"decompile", "done"}
           /\ \A i \in 1..Len(items) :
                i < next_class =>
                  /\ DictHas(decompiled_classes, items[i].k)
                  /\ i <= Len(decompile_log)
                  /\ LET o == decompile_log[i].javap
                         text == DictGet(decompiled_classes, items[i].k)
                     IN /\ o.returncode # 0 => IsFailureText(text)
                        /\ (o.spawned /\ o.returncode # 0) => Contains(text, o.stderr)
                        /\ o.returncode = 0 => text = o.stdout
           /\ pc = "done" =>
                /\ next_class = Len(items) + 1
                /\ ~IsError(response)
                /\ response.found_classes = items
                /\ DictKeys(response.decompiled_classes) = DictKeys(items)

C2_OneFailsOneSucceeds ==
    /\ pc = "done"
    /\ req.tool = "find_and_decompile"
    /\ ~IsError(response)
    /\ Len(response.decompiled_classes) = 2
    /\ ~IsFailureText(response.decompiled_classes[1].v)
    /\ IsFailureText(response.decompiled_classes[2].v)
    /\ decompile_log[2].javap.returncode = 1

\* C3: when javap exits non-zero the text decompile returns contains javap's
\* stderr, and when it exits 0 the text is exactly javap's stdout.
C3_DecompileTextFromJavap ==
    (/\ pc = "done"
     /\ req.tool = "decompile_class"
     /\ decompile_log # <<>>
     /\ decompile_log[1].javap.spawned) =>
        LET javap == decompile_log[1].javap
        IN /\ "decompiled_code" \in DOMAIN response
           /\ javap.returncode = 0 => response.decompiled_code = javap.stdout
           /\ javap.returncode # 0 => Contains(response.decompiled_code, javap.stderr)

C3_NonZeroExit ==
    /\ pc = "done"
    /\ req.tool = "decompile_class"
    /\ decompile_log # <<>>
    /\ decompile_log[1].javap.returncode = 1
    /\ "decompiled_code" \in DOMAIN response
    /\ response.decompiled_code # decompile_log[1].javap.stdout

\* C4: decompile of any artifact path and entry path answers with a decompiled
\* unit (failures inside its text), never with an aborting error.
C4_DecompileOneNeverAborts ==
    (/\ pc = "done"
     /\ req.tool = "decompile_class"
     /\ req.jar_path # <<>>
     /\ req.class_file_path # <<>>) =>
        /\ ~IsError(response)
        /\ "decompiled_code" \in DOMAIN response

\* C5: when the resolver exits non-zero, the error handed to the caller
\* contains the resolver's captured diagnostic output.
C5_ResolutionErrorCarriesDiagnostics ==
    (pc = "done" /\ mvn.returncode > 0) =>
        /\ IsError(response)
        /\ Contains(ErrorText(response), mvn.stderr)

\* C6: a resolver run that exits 0 and leaves no archive is no error: the
\* caller of analyze gets an empty artifact list.
C6_EmptyFetchIsNotAnError ==
    (/\ pc = "done"
     /\ req.tool = "analyze_maven_dependency"
     /\ mvn.returncode = 0
     /\ jar_files = <<>>) =>
        /\ ~IsError(response)
        /\ response.jar_files = <<>>

LacksField(dep) == \E key \in {"groupId", "artifactId", "version"} : key \notin DOMAIN dep

HasBadCoordinate(call) ==
    \E i \in 1..Len(call.dependencies) : LacksField(call.dependencies[i])

\* C7: when some coordinate of the list, at any position, lacks groupId,
\* artifactId or version, the call fails (locally with the KeyError naming a
\* field some coordinate lacks), the resolver is never run, and no directory's
\* manifest is created or overwritten.
C7_MissingFieldFailsWithoutWrite ==
    (IsAnalyzeTool(req.tool) /\ HasBadCoordinate(req)) =>
        /\ pc \in {"called", "synthesize", "done"}
        /\ \A d \in Dirs : fs[d].pom = fs0[d].pom
        /\ "download_dependencies" \notin Range(calls)
        /\ pc = "done" =>
             /\ IsError(response)
             /\ req.server = "local" =>
                  \E i \in 1..Len(req.dependencies) :
                  \E key \in {"groupId", "artifactId", "version"} :
                     /\ key \notin DOMAIN req.dependencies[i]
                     /\ ErrorText(response) = <<key>>

C7_BadEntryLastOldManifestKept ==
    /\ pc = "done"
    /\ req.server = "local"
    /\ req.dependencies = <<GoodDep, NoVersionDep>>
    /\ calls = <<"create_temp_pom">>
    /\ work_dir = CallerDir
    /\ fs0[CallerDir].pom # <<>>
    /\ fs[CallerDir].pom = fs0[CallerDir].pom

\* the classes of every archive of jar_files that can be read
Indexed ==
    UNION {Range(get_classes_from_jar(fs, jar_files[j])) : j \in 1..Len(jar_files)}

Located == "find_exact_class_in_jars" \in Range(calls)

NoDot(name) == \A i \in 1..Len(name) : name[i] # "."

IsSimpleNameOf(name, qualified) ==
    NoDot(name) /\ (qualified = name \/ EndsWith(qualified, <<".">> \o name))

EqualIgnoringCase(a, b) ==
    Len(a) = Len(b) /\ \A i \in 1..Len(a) : LowerChar(a[i]) = LowerChar(b[i])

Suffixes(s) == {SubSeq(s, i, Len(s)) : i \in 1..(Len(s) + 1)}

\* the class's simple name equals the requested name, ignoring case
NameMatches(cls, requested) ==
    \E name \in Suffixes(cls.class_name) :
        IsSimpleNameOf(name, cls.class_name) /\ EqualIgnoringCase(name, requested)

InResult(found, cls) ==
    \E i \in 1..Len(found) : \E j \in 1..Len(found[i].v) : found[i].v[j] = cls

\* C8: find_exact_class_in_jars holds an indexed class iff its simple name
\* equals some requested name ignoring case, files it under its simple name,
\* raises nothing, and a requested name that matches no class is no key of the
\* result.
C8_FindExactCaseInsensitiveSimpleName ==
    Located =>
        /\ \A cls \in Indexed :
              InResult(found_classes, cls) <=>
                 \E t \in 1..Len(req.target_classes) : NameMatches(cls, req.target_classes[t])
        /\ \A i \in 1..Len(found_classes) : \A j \in 1..Len(found_classes[i].v) :
              /\ found_classes[i].v[j] \in Indexed
              /\ IsSimpleNameOf(found_classes[i].k, found_classes[i].v[j].class_name)
        /\ \A t \in 1..Len(req.target_classes) :
              (~\E cls \in Indexed : NameMatches(cls, req.target_classes[t]))
                 => ~DictHas(found_classes, req.target_classes[t])
        /\ pc = "done" => ~IsError(response)

C8_CaseInsensitiveHitAndMiss ==
    /\ pc = "result"
    /\ req.target_classes = <<foo, Baz>>
    /\ jar_files = <<JarPath(work_dir, JarA)>>
    /\ DictKeys(found_classes) = <<Foo>>
    /\ found_classes[1].v[1].class_name = <<"a", ".", "F", "o", "o">>

\* C9: in the analyze result a requested name is in summary.missing_classes
\* iff no located class matches it.
C9_MissingNamesAreUnlocatedNames ==
    (pc = "done" /\ "summary" \in DOMAIN response) =>
        \A t \in 1..Len(req.target_classes) :
            (req.target_classes[t] \in Range(response.summary.missing_classes))
               <=> ~\E i \in 1..Len(response.found_classes) :
                      \E j \in 1..Len(response.found_classes[i].v) :
                         NameMatches(response.found_classes[i].v[j], req.target_classes[t])

JarIndex(cls) == CHOOSE j \in 1..Len(jar_files) : jar_files[j] = cls.jar_path

EntryIndex(cls) ==
    LET namelist == ZipContent(cls.jar_path.file).namelist
    IN CHOOSE e \in 1..Len(namelist) : namelist[e] = cls.file_path

ScannedBefore(c1, c2) ==
    \/ JarIndex(c1) < JarIndex(c2)
    \/ JarIndex(c1) = JarIndex(c2) /\ EntryIndex(c1) < EntryIndex(c2)

\* C10: matched classes with the same simple name, from whichever archives,
\* are all under the one key, in the order the scan met them (jar_files order,
\* then archive order), and find-and-decompile decompiles element 0 of each
\* list.
C10_DuplicatesInScanOrderFirstIsRepresentative ==
    Located =>
        /\ \A c1, c2 \in Indexed :
              (/\ InResult(found_classes, c1)
               /\ InResult(found_classes, c2)
               /\ LastSegment(c1.class_name, ".") = LastSegment(c2.class_name, "."))
                 => \E i \in 1..Len(found_classes) :
                       {c1, c2} \subseteq Range(found_classes[i].v)
        /\ \A i \in 1..Len(found_classes) :
              \A a, b \in 1..Len(found_classes[i].v) :
                 a < b => ScannedBefore(found_classes[i].v[a], found_classes[i].v[b])
        /\ \A i \in 1..Len(decompile_log) :
              /\ decompile_log[i].jar_path = found_classes[i].v[1].jar_path
              /\ decompile_log[i].class_file_path = found_classes[i].v[1].file_path

C10_TwoArchivesOneKey ==
    /\ pc = "done"
    /\ req.tool = "find_and_decompile"
    /\ Len(decompile_log) >= 1
    /\ \E i \in 1..Len(found_classes) :
          /\ Len(found_classes[i].v) = 2
          /\ found_classes[i].v[1].jar_path # found_classes[i].v[2].jar_path
          /\ JarIndex(found_classes[i].v[1]) = 1
          /\ response.decompiled_classes[i].k = found_classes[i].k

\* the archives of jar_files that hold a class of this simple name
ArchivesHolding(name) ==
    {j \in 1..Len(jar_files) :
        \E cls \in Range(get_classes_from_jar(fs, jar_files[j])) :
            IsSimpleNameOf(name, cls.class_name)}

\* C11 as stated: find_exact_class_in_jars with one name that is present in
\* exactly one of the archives returns exactly one key, with a one-element
\* list.
C11_NameInOneArchiveOneKeyOneRecord ==
    (/\ Located
     /\ Len(req.target_classes) = 1
     /\ Cardinality(ArchivesHolding(req.target_classes[1])) = 1) =>
        /\ Len(found_classes) = 1
        /\ Len(found_classes[1].v) = 1

\* the indexed classes whose simple name equals the name, ignoring case
ClassesMatching(name) == {cls \in Indexed : NameMatches(cls, name)}

\* C11: find_exact_class_in_jars with one name that equals, ignoring case, the
\* simple name of exactly one class of all the archives returns exactly one
\* key, with a one-element list holding that class.
C11_NameOfOneClassOneKeyOneRecord ==
    (/\ Located
     /\ Len(req.target_classes) = 1
     /\ Cardinality(ClassesMatching(req.target_classes[1])) = 1) =>
        /\ Len(found_classes) = 1
        /\ Len(found_classes[1].v) = 1
        /\ found_classes[1].v[1] \in ClassesMatching(req.target_classes[1])

C11_OneMatchAmongTwoArchives ==
    /\ pc = "result"
    /\ req.target_classes = <<foo>>
    /\ Len(jar_files) = 2
    /\ Cardinality(ClassesMatching(foo)) = 1
    /\ DictKeys(found_classes) = <<Foo>>

\* sub occurs in s when the case of letters is ignored
ContainsIgnoringCase(s, sub) ==
    \E i \in 1..(Len(s) - Len(sub) + 1) :
        EqualIgnoringCase(SubSeq(s, i, i + Len(sub) - 1), sub)

\* the dot-separated name of the class at an entry path
QualifiedName(entry) ==
    [i \in 1..(Len(entry) - Len(DotClass)) |-> IF entry[i] = "/" THEN "." ELSE entry[i]]

\* the class record of entry e of artifact j of the call's list
RecordAt(before, j, e) ==
    LET entry == OpenZip(before, req.jar_files[j]).namelist[e]
    IN [class_name |-> QualifiedName(entry), file_path |-> entry,
        jar_path |-> req.jar_files[j]]

\* (artifact, entry) of every class whose qualified name contains the pattern
PatternHits(before) ==
    UNION {{<<j, e>> : e \in {x \in 1..Len(OpenZip(before, req.jar_files[j]).namelist) :
                                /\ EndsWith(RecordAt(before, j, x).file_path, DotClass)
                                /\ ContainsIgnoringCase(RecordAt(before, j, x).class_name,
                                                        req.class_name_pattern)}} :
           j \in 1..Len(req.jar_files)}

DiscoveredBefore(h1, h2) == h1[1] < h2[1] \/ (h1[1] = h2[1] /\ h1[2] < h2[2])

\* C12: find_class_in_jars returns the classes of the listed archives whose
\* qualified name contains the pattern ignoring case, and only those, each
\* once for its (artifact, entry), artifacts in list order and entries in
\* archive order.
C12_FindByPatternAllMatchesInDiscoveryOrder ==
    \A c \in 1..Len(returns) :
        LET value == returns[c].value
            hits == PatternHits(returns[c].before)
        IN /\ Len(value) = Cardinality(hits)
           /\ \A h \in hits : \E k \in 1..Len(value) :
                 value[k] = RecordAt(returns[c].before, h[1], h[2])
           /\ \A k \in 1..Len(value) : \E h \in hits :
                 value[k] = RecordAt(returns[c].before, h[1], h[2])
           /\ \A k1, k2 \in 1..Len(value) :
                 k1 < k2 => \E h1, h2 \in hits :
                    /\ value[k1] = RecordAt(returns[c].before, h1[1], h1[2])
                    /\ value[k2] = RecordAt(returns[c].before, h2[1], h2[2])
                    /\ DiscoveredBefore(h1, h2)

C12_ThreeMatchesTwoArchives ==
    /\ Len(returns) >= 1
    /\ req.class_name_pattern = <<".", "f", "o">>
    /\ req.jar_files = <<JarPath(CallerDir, JarB), JarPath(CallerDir, JarA)>>
    /\ Len(returns[1].value) = 3
    /\ returns[1].value[3].class_name = <<"a", ".", "F", "o", "o">>

DirsOfRequestsWithoutWorkDir ==
    [i \in {k \in 1..Len(served) : served[k].work_dir_arg = None} |-> served[i].work_dir]
    @@ (IF req.work_dir = None /\ work_dir # None
        THEN (Len(served) + 1) :> work_dir ELSE << >>)

\* C14: no two requests that came without work_dir, served one after the
\* other by the local or by the remote server, are given the same work
\* directory (and with it the same pom.xml).
C14_EachRequestOwnWorkDir ==
    \A i, j \in DOMAIN DirsOfRequestsWithoutWorkDir :
        i # j => DirsOfRequestsWithoutWorkDir[i] # DirsOfRequestsWithoutWorkDir[j]

AnalyzeOutputFields == {"found_classes", "jar_files", "work_dir", "summary"}

SummaryFields == {"total_jars", "found_classes_count", "missing_classes"}

\* C15: a successful analyze answers with found_classes, jar_files, work_dir
\* and summary{total_jars, found_classes_count, missing_classes}, from the
\* local server and from the remote server alike.
C15_AnalyzeOutputFieldsLocalAndRemote ==
    (/\ pc = "done"
     /\ req.tool = "analyze_maven_dependency"
     /\ ~IsError(response)) =>
        /\ AnalyzeOutputFields \subseteq DOMAIN response
        /\ SummaryFields \subseteq DOMAIN response.summary

\* C16: a successful find-and-decompile that was given a work_dir answers
\* with that work_dir, and with the analyze output plus decompiled_classes
\* whose keys are the keys of found_classes.
C16_FindAndDecompileHonoursWorkDir ==
    (/\ pc = "done"
     /\ req.tool = "find_and_decompile"
     /\ ~IsError(response)) =>
        /\ {"found_classes", "jar_files", "work_dir", "decompiled_classes"}
              \subseteq DOMAIN response
        /\ DictKeys(response.decompiled_classes) = DictKeys(response.found_classes)
        /\ req.work_dir # None => response.work_dir = req.work_dir

\* some requested name matches no indexed class
SomeNameUnmatched ==
    \E t \in 1..Len(req.target_classes) : ClassesMatching(req.target_classes[t]) = {}

HasNoErrorField(r) == "error" \notin DOMAIN r

\* the envelope has an error field that holds the remote server's diagnostic
CarriesDiagnostic(r) ==
    /\ "error" \in DOMAIN r
    /\ Contains(r.error, response.detail)

\* C17: the forwarding tier's call_tool returns an envelope for every call; an
\* unknown tool, a coordinate without a required field and a failed resolver
\* run give an envelope with an error field that carries the diagnostic
\* message; a decompile that fails and a requested class that is not found
\* give an envelope without error field, the failure being in decompiled_code
\* or in summary.missing_classes.
C17_ErrorFieldOnAbortingErrorsOnly ==
    proxy.result # NoResponse =>
        /\ proxy.name = UnknownTool => "error" \in DOMAIN proxy.result
        /\ (pc = "done" /\ IsAnalyzeTool(req.tool) /\ HasBadCoordinate(req))
              => CarriesDiagnostic(proxy.result)
        /\ (pc = "done" /\ mvn.returncode > 0) => CarriesDiagnostic(proxy.result)
        /\ (pc = "done" /\ req.tool = "decompile_class"
                        /\ req.jar_path # <<>> /\ req.class_file_path # <<>>)
              => /\ HasNoErrorField(proxy.result)
                 /\ "decompiled_code" \in DOMAIN proxy.result
        /\ (pc = "done" /\ Located /\ SomeNameUnmatched)
              => /\ HasNoErrorField(proxy.result)
                 /\ "summary" \in DOMAIN proxy.result
                 /\ \A t \in 1..Len(req.target_classes) :
                       ClassesMatching(req.target_classes[t]) = {}
                          => req.target_classes[t] \in Range(proxy.result.summary.missing_classes)

\* the sub-path the interface gives each operation
PathOfOperation ==
    ("analyze_maven_dependency" :> "/api/analyze")
    @@ ("decompile_class" :> "/api/decompile")
    @@ ("find_and_decompile" :> "/api/find-and-decompile")

\* C18: a call of one of the three tools makes exactly one POST, to the
\* tool's sub-path on REMOTE_SERVER_URL with the call's arguments as the JSON
\* body; an answer that is not 2xx comes back as an envelope with an error
\* field and remote_url = REMOTE_SERVER_URL, a 2xx answer as its body.
C18_OnePostPerCallNon2xxStructured ==
    /\ proxy.name \notin DOMAIN PathOfOperation => proxy.posts = <<>>
    /\ proxy.name \in DOMAIN PathOfOperation =>
          /\ Len(proxy.posts) = 1
          /\ proxy.posts[1].url = REMOTE_SERVER_URL
          /\ proxy.posts[1].path = PathOfOperation[proxy.name]
          /\ proxy.posts[1].json = proxy.arguments
    /\ (proxy.result # NoResponse /\ pc = "done") =>
          IF response.status \in 200..299
          THEN /\ HasNoErrorField(proxy.result)
               /\ \A f \in DOMAIN response \ {"status"} :
                     f \in DOMAIN proxy.result /\ proxy.result[f] = response[f]
          ELSE /\ "error" \in DOMAIN proxy.result
               /\ "remote_url" \in DOMAIN proxy.result
               /\ proxy.result.remote_url = REMOTE_SERVER_URL

C18_FindAndDecompileAnswered500 ==
    /\ proxy.name = "find_and_decompile"
    /\ proxy.posts[1].path = "/api/find-and-decompile"
    /\ proxy.arguments.work_dir = CallerDir
    /\ pc = "done"
    /\ response.status = 500
    /\ proxy.result # NoResponse
    /\ proxy.result.remote_url = REMOTE_SERVER_URL

\* C19: after a cleanup request the directory is not there, whatever it was
\* before; the request is answered without error; a cleanup of a directory
\* that is not there changes nothing; a cleanup repeated right after a
\* cleanup of the same directory leaves the state the first one left.
C19_CleanupIdempotent ==
    \A c \in 1..Len(served) :
        LET dir == served[c].work_dir_arg
        IN /\ ~served[c].after[dir].exists
           /\ ~IsError(served[c].response)
           /\ \A d \in Dirs \ {dir} : served[c].after[d] = served[c].before[d]
           /\ ~served[c].before[dir].exists => served[c].after = served[c].before
           /\ (c > 1 /\ served[c - 1].work_dir_arg = dir)
                 => served[c].after = served[c - 1].after

C19_CleanedThenCleanedAgain ==
    /\ Len(served) = 2
    /\ served[1].work_dir_arg = served[2].work_dir_arg
    /\ served[1].before[served[1].work_dir_arg].files # {}
    /\ served[1].response.body.status = "success"
    /\ served[2].response.body.status = "not_found"
    /\ fs = served[1].after

\* C20: whenever a decompile has returned, the temporary directory it made is
\* not there, whether javap exited 0, exited non-zero, could not be spawned,
\* or the entry could not be extracted; the decompile put at most one file
\* there, and exactly the one entry asked for whenever javap was started.
C20_TemporaryDirectoryRemovedOnEveryExit ==
    /\ fs[TemporaryDirectory] = NoDir
    /\ \A i \in 1..Len(decompile_log) :
          LET call == decompile_log[i]
          IN /\ Cardinality(call.extracted) <= 1
             /\ call.javap # NotRun
                   => call.extracted = {LastSegment(call.class_file_path, "/")}

C20_JavapFailedThenNotSpawned ==
    /\ pc = "done"
    /\ Len(decompile_log) = 2
    /\ decompile_log[1].javap.spawned /\ decompile_log[1].javap.returncode = 1
    /\ decompile_log[2].javap # NotRun /\ ~decompile_log[2].javap.spawned
    /\ \A i \in 1..2 : Cardinality(decompile_log[i].extracted) = 1
    /\ fs[TemporaryDirectory] = NoDir

\* the entry path without its last six characters, each "/" turned into "."
IsDottedStem(class_name, file_path) ==
    /\ Len(class_name) = Len(file_path) - 6
    /\ \A k \in 1..Len(class_name) :
          class_name[k] = IF file_path[k] = "/" THEN "." ELSE file_path[k]

\* the positions of the entries of a name list that end in ".class"
ClassEntryPositions(namelist) ==
    {k \in 1..Len(namelist) :
        /\ Len(namelist[k]) >= 6
        /\ SubSeq(namelist[k], Len(namelist[k]) - 5, Len(namelist[k])) = DotClass}

\* C21: the index of a readable archive has one record for every entry whose
\* name ends in ".class", in the order of the entries, and none for any other
\* entry; a record's class_name is the entry path with its last ".class"
\* removed and each "/" turned into ".", its file_path is the entry path and
\* its jar_path is the path that was indexed.
C21_IndexOneRecordPerClassEntry ==
    \A c \in 1..Len(returns) :
        LET call == returns[c]
            zip == ZipContent(req.jar_path.file)
            readable == /\ call.before[req.jar_path.dir].exists
                        /\ req.jar_path.file \in call.before[req.jar_path.dir].files
                        /\ zip.ok
            at == ClassEntryPositions(zip.namelist)
        IN (req.tool = "get_classes_from_jar" /\ readable) =>
              /\ Len(call.value) = Cardinality(at)
              /\ \A i \in 1..Len(call.value) :
                    /\ call.value[i].jar_path = req.jar_path
                    /\ call.value[i].file_path \in {zip.namelist[k] : k \in at}
                    /\ IsDottedStem(call.value[i].class_name, call.value[i].file_path)
              /\ \A i, j \in 1..Len(call.value) :
                    i < j => \E k, l \in at :
                                /\ k < l
                                /\ call.value[i].file_path = zip.namelist[k]
                                /\ call.value[j].file_path = zip.namelist[l]

C21_IndexedEveryKindOfEntry ==
    /\ req.tool = "get_classes_from_jar"
    /\ req.jar_path = JarPath(CallerDir, JarD)
    /\ Len(returns) = 1
    /\ Len(returns[1].value) = 3
    /\ returns[1].value[1].file_path = clsDirB
    /\ returns[1].value[1].class_name = <<"a">> \o DotClass \o <<".", "B">>
    /\ returns[1].value[2].class_name = <<>>

\* the paths of a list behind which a readable archive is, in list order
RECURSIVE ReadableOnly(_, _, _)
ReadableOnly(before, jars, j) ==
    IF j > Len(jars) THEN <<>>
    ELSE LET there == /\ before[jars[j].dir].exists
                      /\ jars[j].file \in before[jars[j].dir].files
                      /\ ZipContent(jars[j].file).ok
         IN (IF there THEN <<jars[j]>> ELSE <<>>) \o ReadableOnly(before, jars, j + 1)

\* C22: over a list in which some archives are missing or corrupt, the lookup
\* by names and the lookup by pattern raise nothing and return what they
\* return over the list with those archives taken out.
C22_UnreadableArchiveSkipped ==
    \A c \in 1..Len(returns) :
        LET call == returns[c]
            readable == ReadableOnly(call.before, req.jar_files, 1)
        IN req.tool = "locate" =>
              /\ ~call.raised
              /\ call.exact = find_exact_class_in_jars(call.before, readable, req.class_names)
              /\ call.value =
                    find_class_in_jars(call.before, readable, req.class_name_pattern).value

C22_CorruptThenMissingThenReadable ==
    /\ req.tool = "locate"
    /\ Len(req.jar_files) = 2
    /\ req.jar_files[1] = JarPath(CallerDir, JarC)
    /\ req.jar_files[2] = JarPath(CallerDir, JarA)
    /\ req.class_names = <<Foo>>
    /\ Len(returns) = 2
    /\ returns[1].exact = <<[k |-> Foo, v |-> <<ClassInfo(aFoo, req.jar_files[2])>>]>>
    /\ Len(returns[1].value) = 1
    /\ JarA \notin returns[2].before[CallerDir].files
    /\ returns[2].exact = <<>>
    /\ returns[2].value = <<>>

\* the buffer of the call is too short or does not start with CA FE BA BE
Malformed(bytecode) ==
    \/ Len(bytecode) < 8
    \/ \E i \in 1..4 : bytecode[i] # <<202, 254, 186, 190>>[i]

\* C23: an inspection of an entry that is shorter than 8 bytes, or whose first
\* four bytes are not CA FE BA BE, returns no summary but None, the code's
\* sign of a malformed class, whichever of the two inspections is called and
\* whether javatools is there or not.
C23_MalformedBufferNeverSummary ==
    \A c \in 1..Len(returns) :
        (req.tool = "analyze_class" /\ req.entry.present /\ Malformed(req.entry.bytecode))
            => (~returns[c].raised /\ returns[c].value = <<>>)

C23_WrongLastMagicByteRefused ==
    /\ req.tool = "analyze_class"
    /\ req.entry.present
    /\ Len(req.entry.bytecode) = 9
    /\ SubSeq(req.entry.bytecode, 1, 4) = <<202, 254, 186, 191>>
    /\ req.javatools = "parses"
    /\ Len(returns) = 2
    /\ returns[1].call = "analyze_class_basic"
    /\ returns[2].call = "analyze_class_with_javatools"
    /\ returns[1].value = <<>> /\ returns[2].value = <<>>

\* the calls that go the minimal way: analyze_class_basic itself, and
\* analyze_class_with_javatools when javatools is absent or fails
MinimalPath(call) ==
    call.call = "analyze_class_basic" \/ req.javatools # "parses"

\* C24: for an entry of at least 8 bytes that starts with CA FE BA BE the
\* minimal inspection raises nothing and returns a summary; its java_version
\* is "major.minor" with minor = 256 * byte 4 + byte 5 and major = 256 * byte
\* 6 + byte 7 (bytes counted from 0); its java_compatible is major - 44 for
\* the majors 52..65 and "Unknown (major)" for every other major.
C24_VersionsBigEndianLabelFromTable ==
    \A c \in 1..Len(returns) :
        LET b == req.entry.bytecode
            minor == 256 * b[5] + b[6]
            major == 256 * b[7] + b[8]
        IN (/\ req.tool = "analyze_class"
            /\ req.entry.present
            /\ ~Malformed(b)
            /\ MinimalPath(returns[c]))
            => /\ ~returns[c].raised
               /\ Len(returns[c].value) = 1
               /\ returns[c].value[1].java_version = ToString(major) \o "." \o ToString(minor)
               /\ returns[c].value[1].java_compatible =
                     IF major >= 52 /\ major <= 65 THEN ToString(major - 44)
                     ELSE "Unknown (" \o ToString(major) \o ")"
               /\ returns[c].value[1].bytecode_size = Len(b)
               /\ returns[c].value[1].magic = "0xcafebabe"

C24_Java17WithMinor259 ==
    /\ req.tool = "analyze_class"
    /\ req.entry.present
    /\ Len(req.entry.bytecode) = 9
    /\ SubSeq(req.entry.bytecode, 1, 8) = <<202, 254, 186, 190, 1, 3, 0, 61>>
    /\ Len(returns) = 1
    /\ returns[1].call = "analyze_class_basic"
    /\ returns[1].value[1].java_version = "61.259"
    /\ returns[1].value[1].java_compatible = "17"

\* javatools is not there, or raises on this entry
ParserAbsentOrFails ==
    \/ req.javatools \in {"absent", "fails"}
    \/ ~req.entry.present
    \/ Malformed(req.entry.bytecode)

\* C25: when javatools is absent or fails, analyze_class_with_javatools ends
\* as analyze_class_basic ends for the same entry, with the same value or the
\* same exception, and it raises nothing when the entry can be read.
C25_FallbackEqualsMinimalPath ==
    \A c \in 1..Len(returns) :
        (/\ req.tool = "analyze_class"
         /\ returns[c].call = "analyze_class_with_javatools"
         /\ ParserAbsentOrFails)
            => /\ req.entry.present => ~returns[c].raised
               /\ \A b \in 1..Len(returns) :
                     returns[b].call = "analyze_class_basic"
                        => /\ returns[c].raised = returns[b].raised
                           /\ returns[c].exc = returns[b].exc
                           /\ returns[c].value = returns[b].value

C25_ParserFailsSummaryFromMinimalPath ==
    /\ req.tool = "analyze_class"
    /\ req.javatools = "fails"
    /\ req.entry.present
    /\ ~Malformed(req.entry.bytecode)
    /\ Len(returns) = 2
    /\ returns[1].call = "analyze_class_basic"
    /\ returns[2].call = "analyze_class_with_javatools"
    /\ Len(returns[2].value) = 1
    /\ returns[2].value = returns[1].value

\* every coordinate of the call has its three fields
AllCoordinatesComplete ==
    \A i \in 1..Len(req.dependencies) :
        {"groupId", "artifactId", "version"} \subseteq DOMAIN req.dependencies[i]

\* C26: the manifest create_temp_pom writes has one dependency element for
\* each coordinate of the input, in the order of the input, repeated
\* coordinates repeated, and it has a repositories section exactly when the
\* repository list is not empty.
C26_ManifestKeepsInputSequence ==
    \A c \in 1..Len(returns) :
        (/\ req.tool = "create_temp_pom"
         /\ AllCoordinatesComplete
         /\ returns[c].after[req.work_dir].exists)
            => /\ ~returns[c].raised
               /\ Len(returns[c].after[req.work_dir].pom) = 1
               /\ LET pom == returns[c].after[req.work_dir].pom[1]
                  IN /\ Len(pom.dependencies) = Len(req.dependencies)
                     /\ \A i \in 1..Len(req.dependencies) :
                           /\ pom.dependencies[i].groupId = req.dependencies[i].groupId
                           /\ pom.dependencies[i].artifactId = req.dependencies[i].artifactId
                           /\ pom.dependencies[i].version = req.dependencies[i].version
                     /\ pom.repositories_section <=> Len(req.repositories) > 0
                     /\ Len(pom.repositories) = Len(req.repositories)

C26_SameCoordinateTwiceWithRepositories ==
    /\ req.tool = "create_temp_pom"
    /\ req.dependencies = <<GoodDep, GoodDep>>
    /\ req.repositories = <<ReleaseRepo, SnapshotRepo>>
    /\ Len(returns) = 1
    /\ Len(fs[req.work_dir].pom) = 1
    /\ Len(fs[req.work_dir].pom[1].dependencies) = 2
    /\ fs[req.work_dir].pom[1].repositories_section

\* the archives the resolver had produced for the other coordinates of
\* earlier requests of the session, and has not produced in this one
LeftByEarlierRequests ==
    UNION {served[i].produced :
              i \in {k \in 1..Len(served) : served[k].dependencies # req.dependencies}}
        \ mvn.produced

\* C27: the jar_files of an analyze request, and the archives its
\* found_classes point to, are archives the resolver produced for this
\* request; none is an archive that only an earlier request's resolver run
\* had put into the directory.
C27_NoArchiveOfEarlierRequest ==
    (pc \in {"locate", "result", "done"} /\ mvn.returncode = 0)
        => /\ \A i \in 1..Len(jar_files) : jar_files[i].file \notin LeftByEarlierRequests
           /\ \A k \in 1..Len(found_classes) : \A j \in 1..Len(found_classes[k].v) :
                 found_classes[k].v[j].jar_path.file \notin LeftByEarlierRequests

\* C28: the remote analyze answered. If it failed, a directory the server
\* made for the request (none was named) is not there any more and nothing
\* else has changed, and a directory the caller named is still there with
\* all it held; if it succeeded, the directory is there and the answer names
\* it.
C28_RemoteWorkDirAfterAnalyze ==
    (/\ pc = "done"
     /\ req.server = "remote"
     /\ req.tool = "analyze_maven_dependency"
     /\ response.status # 422)
        => IF response.status = 200
           THEN /\ fs[work_dir].exists
                /\ response.work_dir = work_dir
                /\ req.work_dir # None => work_dir = req.work_dir
           ELSE IF req.work_dir = None
           THEN /\ ~fs[work_dir].exists
                /\ fs = fs0
           ELSE /\ fs[req.work_dir].exists
                /\ fs0[req.work_dir].files \subseteq fs[req.work_dir].files

C28_NoArchivesServerDirectoryRemoved ==
    /\ pc = "done"
    /\ req.server = "remote"
    /\ req.tool = "analyze_maven_dependency"
    /\ req.work_dir = None
    /\ mvn.returncode = 0
    /\ response.status = 500
    /\ work_dir = TempDir
    /\ ~fs[TempDir].exists

\* C29: the class_name in the answer to a decompile of an entry equals the
\* class_name the index gave to that entry.
C29_DecompileNameIsIndexName ==
    (req.tool = "get_classes_from_jar" /\ response # NoResponse)
        => \A c \in 1..Len(returns) : \A i \in 1..Len(returns[c].value) :
              returns[c].value[i].file_path = response.class_file_path
                 => response.class_name = returns[c].value[i].class_name

\* the id of an answer, <<>> when the answer has none
AnswerId(answer) == IF "id" \in DOMAIN answer.body THEN <<answer.body.id>> ELSE <<>>

HasErrorCode(answer, code) ==
    "error" \in DOMAIN answer.body /\ answer.body.error.code = code

\* the tools/call of the body names a tool: params has a name that is not empty
NamesTool(body) ==
    /\ body.method = <<"tools/call">>
    /\ body.params # <<>>
    /\ body.params[1].kind = "object"
    /\ body.params[1].name \notin {<<>>, <<"">>}

\* the answer to a request that has an id carries that id
AnswerCarriesRequestId ==
    returns # <<>> => (served[1].id # <<>> => AnswerId(returns[1]) = served[1].id)

\* a tools/call without a tool name gets error code -32602, no tool is called
NoToolNameIsInvalidParams ==
    (returns # <<>> /\ served[1].method = <<"tools/call">> /\ ~NamesTool(served[1]))
        => (HasErrorCode(returns[1], -32602) /\ proxy = NoProxyCall)

\* C30: root_post answers a request with the request's id; initialize and
\* tools/list get a result and the remote server is not contacted; a
\* tools/call that names a tool has that tool called once, with one request to
\* the remote server for a known tool and none, but an error envelope, for
\* any other name; a tools/call without a tool name gets error code -32602
\* and no tool is called; every other method except notifications/initialized
\* gets error code -32601.
C30_RootPostDispatchesOnMethod ==
    /\ AnswerCarriesRequestId
    /\ NoToolNameIsInvalidParams
    /\ (returns # <<>> /\ served[1].method \in {<<"initialize">>, <<"tools/list">>})
          => /\ "result" \in DOMAIN returns[1].body
             /\ proxy = NoProxyCall
    /\ (returns # <<>> /\ NamesTool(served[1]))
          => /\ proxy.name = served[1].params[1].name[1]
             /\ "result" \in DOMAIN returns[1].body
             /\ IF proxy.name \in {"analyze_maven_dependency", "decompile_class",
                                    "find_and_decompile"}
                THEN Len(proxy.posts) = 1
                ELSE /\ proxy.posts = <<>>
                     /\ "error" \in DOMAIN returns[1].body.result.content[1].text
    /\ (returns # <<>>
           /\ served[1].method \notin {<<"initialize">>, <<"tools/list">>, <<"tools/call">>,
                                        <<"notifications/initialized">>})
          => HasErrorCode(returns[1], -32601)

====
